---- MODULE Spec2Model ----
(***************************************************************************)
(* Speaker selection and conversation continuity of the group chat         *)
(* backend (backend/server.js): the per-(user, group) ConversationContext  *)
(* store, the continuity decision, the weighted speaker selection, and the *)
(* POST /api/chat request path with its outbound completion call.          *)
(*                                                                         *)
(* Text.  A JavaScript string is modelled as the sequence of its UTF-16    *)
(* code units.  Every code unit is written as one token: a CJK character   *)
(* by its pinyin (with a digit or letter suffix where two characters of    *)
(* the tables share a reading, e.g. "zhang" U+5F20 and "zhang3" U+957F,    *)
(* "xie" U+90AA and "xie4" U+89E3, "xian" U+9669 and "xian4" U+7EBF), an    *)
(* ASCII character by itself, full-width punctuation as "fw_q" (U+FF1F),   *)
(* "fw_excl" (U+FF01), "fw_comma" (U+FF0C), "fw_stop" (U+3002), and a      *)
(* surrogate by its hexadecimal value ("D83D").  String.length is Len,     *)
(* String.includes is Includes.                                            *)
(*                                                                         *)
(* Persona and group names are used by the code only as keys and in        *)
(* equality tests; they are written as atoms:                              *)
(*   "ZhangQiling" U+5F20 U+8D77 U+7075    "WangPangzi" U+738B U+80D6 U+5B50 *)
(*   "WuXie"       U+5434 U+90AA           "HeiXiazi"   U+9ED1 U+778E U+5B50 *)
(*   "XieYuchen"   U+89E3 U+96E8 U+81E3    "HuoXiuxiu"  U+970D U+79C0 U+79C0 *)
(*   "TieSanJiao"  U+94C1 U+4E09 U+89D2    "NenNiuLiuFang" U+5AE9 U+725B U+516D U+65B9 *)
(*   "KeLaiEn"     U+514B U+83B1 U+6069 (a single-chat character)          *)
(***************************************************************************)
EXTENDS Integers, Sequences, FiniteSets, TLC

\* JavaScript null where a string is expected (context.topic, extractTopic's
\* result): a one-token value that is no string of the program.
NullStr == <<"null">>

\* JavaScript null where a persona name is expected (context.currentSpeaker).
Null == "null"

\* String.prototype.includes
Includes(s, sub) ==
  \E i \in 0..(Len(s) - Len(sub)) : \A j \in 1..Len(sub) : s[i + j] = sub[j]

\* Truthiness of a string-or-null value: null and '' are falsy.
Truthy(s) == s # NullStr /\ s # <<>>

\* Array.prototype.slice(-n)
LastN(s, n) == IF Len(s) <= n THEN s ELSE SubSeq(s, Len(s) - n + 1, Len(s))

\* String.prototype.toLowerCase on one code unit: the ASCII letters of the
\* modelled messages; every other code unit of the tables (CJK, punctuation)
\* has no lower-case form and is kept.
LowerUnit(c) ==
  CASE c = "A" -> "a"
    [] c = "B" -> "b"
    [] c = "O" -> "o"
    [] OTHER -> c

toLowerCase(s) == [i \in 1..Len(s) |-> LowerUnit(s[i])]

topics ==
  <<
    <<"xiao", "ge">>, <<"zhang", "qi", "ling">>, <<"zu", "zhang3">>,
    <<"men", "you", "ping">>, <<"pang", "zi">>, <<"wang", "pang", "zi">>, <<"pang", "ye">>,
    <<"wu", "xie">>, <<"tian", "zhen">>, <<"xiao", "san", "ye">>, <<"hei", "xia", "zi">>,
    <<"hua", "er", "ye">>, <<"hua", "er">>, <<"xie4", "yu", "chen">>,
    <<"huo", "xiu", "xiu">>, <<"kao", "gu">>, <<"gu", "mu">>, <<"tan", "xian">>,
    <<"wei1", "xian">>, <<"xian4", "suo">>, <<"san", "shu">>, <<"qing", "tong">>,
    <<"mi4", "mi4b">>, <<"ji", "guan">>
  >>

RECURSIVE FirstTopic(_, _)
FirstTopic(message, i) ==
  IF i > Len(topics) THEN NullStr
  ELSE IF Includes(message, topics[i]) THEN topics[i]
  ELSE FirstTopic(message, i + 1)

\* extractTopic that returns the keyword found earliest in the text instead
\* of the first one in list order.
extractTopic_EarliestInText(message) ==
  LET hitsAt(p) == {i \in 1..Len(topics) :
                      /\ p + Len(topics[i]) - 1 <= Len(message)
                      /\ SubSeq(message, p, p + Len(topics[i]) - 1) = topics[i]}
      positions == {p \in 1..Len(message) : hitsAt(p) # {}}
  IN  IF positions = {} THEN NullStr
      ELSE LET first == CHOOSE p \in positions : \A q \in positions : p <= q
               i == CHOOSE i \in hitsAt(first) : \A j \in hitsAt(first) : i <= j
           IN  topics[i]

\* ConversationContext.extractTopic
extractTopic(message) == FirstTopic(message, 1)

ctxSpeakerKeywords ==
  <<
    [speaker |-> "ZhangQiling", keywords |->
      <<
        <<"xiao", "ge">>, <<"zu", "zhang3">>, <<"zhang", "qi", "ling">>,
        <<"men", "you", "ping">>, <<"xiao", "ge", "zai", "ma">>,
        <<"zhang", "qi", "ling", "zai", "ma">>
      >>],
    [speaker |-> "WangPangzi", keywords |->
      <<
        <<"pang", "zi">>, <<"wang", "pang", "zi">>, <<"pang", "ye">>,
        <<"pang", "zi", "zai", "ma">>, <<"wang", "pang", "zi", "zai", "ma">>
      >>],
    [speaker |-> "WuXie", keywords |->
      <<
        <<"wu", "xie">>, <<"tian", "zhen">>, <<"xiao", "san", "ye">>,
        <<"wu", "xie", "zai", "ma">>
      >>],
    [speaker |-> "HeiXiazi", keywords |->
      <<
        <<"hei", "xia", "zi">>, <<"hei", "xia", "zi", "zai", "ma">>
      >>],
    [speaker |-> "XieYuchen", keywords |->
      <<
        <<"xie4", "yu", "chen">>, <<"hua", "er">>, <<"hua", "er", "ye">>,
        <<"xie4", "yu", "chen", "zai", "ma">>
      >>],
    [speaker |-> "HuoXiuxiu", keywords |->
      <<
        <<"huo", "xiu", "xiu">>, <<"xiu", "xiu">>, <<"huo", "xiu", "xiu", "zai", "ma">>
      >>]
  >>

\* Whether one entry of a speaker-keyword table has a keyword in the message.
KeywordHit(entry, message) ==
  \E k \in 1..Len(entry.keywords) : Includes(message, entry.keywords[k])

MentionedIn(table, message) ==
  LET hit(entry) == KeywordHit(entry, message)
      sel == SelectSeq(table, hit)
  IN  [i \in 1..Len(sel) |-> sel[i].speaker]

\* ConversationContext.getMentionedSpeakers
ctxGetMentionedSpeakers(message) == MentionedIn(ctxSpeakerKeywords, message)

continuationIndicators ==
  <<
    <<"ran", "hou", "ne">>, <<"jie", "zhe", "shuo">>, <<"hai", "you3", "ne">>,
    <<"hou", "lai", "ne">>, <<"zen", "me", "yang">>, <<"zhen", "de", "ma">>,
    <<"wei4", "shen2", "me">>, <<"zen", "me">>, <<"ru", "he">>, <<"na">>, <<"en">>, <<"o">>,
    <<"a">>, <<"hao", "ba">>, <<"yuan", "lai", "ru", "ci">>
  >>

\* isConversationContinuation with "length < 5" for "length <= 5".
isConversationContinuation_ShorterThanFive(currentMessage, lastMessage) ==
  IF Len(currentMessage) < 5 THEN TRUE
  ELSE IF \E i \in 1..Len(continuationIndicators) :
            Includes(currentMessage, continuationIndicators[i]) THEN TRUE
  ELSE IF Includes(lastMessage, <<"?">>) \/ Includes(lastMessage, <<"fw_q">>) THEN TRUE
  ELSE FALSE

\* ConversationContext.isConversationContinuation
isConversationContinuation(currentMessage, lastMessage) ==
  IF Len(currentMessage) <= 5 THEN TRUE
  ELSE IF \E i \in 1..Len(continuationIndicators) :
            Includes(currentMessage, continuationIndicators[i]) THEN TRUE
  ELSE IF Includes(lastMessage, <<"?">>) \/ Includes(lastMessage, <<"fw_q">>) THEN TRUE
  ELSE FALSE

\* ------------------------------------------------------------------------
\* The context store: contexts is the Map userId -> Map character -> context.

\* The context getUserContext creates on a miss.
DefaultContext ==
  [currentSpeaker |-> Null, topic |-> NullStr, lastUserMessage |-> <<>>,
   messageCount |-> 0, speakerHistory |-> <<>>]

EmptyMap == [k \in {} |-> k]

\* Map.prototype.set and Map.prototype.delete
MapSet(map, k, v) == [x \in (DOMAIN map) \cup {k} |-> IF x = k THEN v ELSE map[x]]
MapDelete(map, k) == [x \in (DOMAIN map) \ {k} |-> map[x]]

\* Whether the store holds an entry for (userId, character).
HasContext(ctxs, userId, character) ==
  userId \in DOMAIN ctxs /\ character \in DOMAIN ctxs[userId]

\* getUserContext without the has(character) test: the entry is set to the
\* default context on every call.
getUserContextStore_AlwaysSets(ctxs, userId, character) ==
  LET withUser == IF userId \in DOMAIN ctxs THEN ctxs ELSE MapSet(ctxs, userId, EmptyMap)
  IN  MapSet(withUser, userId, MapSet(withUser[userId], character, DefaultContext))

\* ConversationContext.getUserContext, its effect on the store: a missing
\* user map and a missing entry are created.
getUserContextStore(ctxs, userId, character) ==
  LET withUser == IF userId \in DOMAIN ctxs THEN ctxs ELSE MapSet(ctxs, userId, EmptyMap)
      userContexts == withUser[userId]
  IN  IF character \in DOMAIN userContexts THEN withUser
      ELSE MapSet(withUser, userId, MapSet(userContexts, character, DefaultContext))

\* ConversationContext.getUserContext, the context it returns.
getUserContext(ctxs, userId, character) ==
  getUserContextStore(ctxs, userId, character)[userId][character]

\* The bound of speakerHistory.
MaxSpeakerHistory == 10

\* updateContext with slice(0, 10) for slice(-10): a full history keeps its
\* oldest entries and drops the new one.
updatedContext_KeepsOldest(context, speaker, userMessage, timestamp) ==
  LET pushed == Append(context.speakerHistory,
                       [speaker |-> speaker, timestamp |-> timestamp, message |-> userMessage])
  IN  [currentSpeaker |-> speaker,
       lastUserMessage |-> userMessage,
       messageCount |-> context.messageCount + 1,
       speakerHistory |-> IF Len(pushed) > MaxSpeakerHistory
                            THEN SubSeq(pushed, 1, MaxSpeakerHistory) ELSE pushed,
       topic |-> extractTopic(userMessage)]

\* updateContext without the cut of speakerHistory to its last 10 entries.
updatedContext_HistoryUncut(context, speaker, userMessage, timestamp) ==
  [currentSpeaker |-> speaker,
   lastUserMessage |-> userMessage,
   messageCount |-> context.messageCount + 1,
   speakerHistory |-> Append(context.speakerHistory,
                             [speaker |-> speaker, timestamp |-> timestamp,
                              message |-> userMessage]),
   topic |-> extractTopic(userMessage)]

\* updateContext without the assignment to currentSpeaker.
updatedContext_SpeakerNotStored(context, speaker, userMessage, timestamp) ==
  LET pushed == Append(context.speakerHistory,
                       [speaker |-> speaker, timestamp |-> timestamp, message |-> userMessage])
  IN  [currentSpeaker |-> context.currentSpeaker,
       lastUserMessage |-> userMessage,
       messageCount |-> context.messageCount + 1,
       speakerHistory |-> IF Len(pushed) > MaxSpeakerHistory
                            THEN LastN(pushed, MaxSpeakerHistory) ELSE pushed,
       topic |-> extractTopic(userMessage)]

\* updateContext without the recomputation of the topic (line 393).
updatedContext_TopicKept(context, speaker, userMessage, timestamp) ==
  LET pushed == Append(context.speakerHistory,
                       [speaker |-> speaker, timestamp |-> timestamp, message |-> userMessage])
  IN  [currentSpeaker |-> speaker,
       lastUserMessage |-> userMessage,
       messageCount |-> context.messageCount + 1,
       speakerHistory |-> IF Len(pushed) > MaxSpeakerHistory
                            THEN LastN(pushed, MaxSpeakerHistory) ELSE pushed,
       topic |-> context.topic]

\* The body of updateContext on the context object it obtained.
updatedContext(context, speaker, userMessage, timestamp) ==
  LET pushed == Append(context.speakerHistory,
                       [speaker |-> speaker, timestamp |-> timestamp, message |-> userMessage])
  IN  [currentSpeaker |-> speaker,
       lastUserMessage |-> userMessage,
       messageCount |-> context.messageCount + 1,
       speakerHistory |-> IF Len(pushed) > MaxSpeakerHistory
                            THEN LastN(pushed, MaxSpeakerHistory) ELSE pushed,
       topic |-> extractTopic(userMessage)]

\* ConversationContext.updateContext, its effect on the store.
updateContext(ctxs, userId, character, speaker, userMessage, timestamp) ==
  LET store == getUserContextStore(ctxs, userId, character)
      context == store[userId][character]
  IN  MapSet(store, userId,
             MapSet(store[userId], character,
                    updatedContext(context, speaker, userMessage, timestamp)))

\* shouldContinueWithSameSpeaker with "messageCount < 1" for "messageCount < 2".
shouldContinueWithSameSpeaker_FromSecondMessage(context, userMessage) ==
  IF context.messageCount < 1 THEN FALSE
  ELSE IF Len(ctxGetMentionedSpeakers(userMessage)) > 0 THEN FALSE
  ELSE LET currentTopic == extractTopic(userMessage)
       IN  IF Truthy(currentTopic) /\ Truthy(context.topic) /\ currentTopic = context.topic
             THEN TRUE
           ELSE IF isConversationContinuation(userMessage, context.lastUserMessage) THEN TRUE
           ELSE FALSE

\* shouldContinueWithSameSpeaker where only a mention of a persona other than
\* the current speaker forces a reselection.
shouldContinueWithSameSpeaker_MentionOfOthersOnly(context, userMessage) ==
  LET mentionedSpeakers == ctxGetMentionedSpeakers(userMessage)
  IN  IF context.messageCount < 2 THEN FALSE
      ELSE IF \E i \in 1..Len(mentionedSpeakers) :
                mentionedSpeakers[i] # context.currentSpeaker THEN FALSE
      ELSE LET currentTopic == extractTopic(userMessage)
           IN  IF Truthy(currentTopic) /\ Truthy(context.topic)
                  /\ currentTopic = context.topic
                 THEN TRUE
               ELSE IF isConversationContinuation(userMessage, context.lastUserMessage)
                 THEN TRUE
               ELSE FALSE

\* shouldContinueWithSameSpeaker without the topic test of lines 426-430.
shouldContinueWithSameSpeaker_NoTopicTest(context, userMessage) ==
  IF context.messageCount < 2 THEN FALSE
  ELSE IF Len(ctxGetMentionedSpeakers(userMessage)) > 0 THEN FALSE
  ELSE IF isConversationContinuation(userMessage, context.lastUserMessage) THEN TRUE
  ELSE FALSE

\* ConversationContext.shouldContinueWithSameSpeaker on the context that
\* getUserContext returned.
shouldContinueWithSameSpeaker(context, userMessage) ==
  IF context.messageCount < 2 THEN FALSE
  ELSE IF Len(ctxGetMentionedSpeakers(userMessage)) > 0 THEN FALSE
  ELSE LET currentTopic == extractTopic(userMessage)
       IN  IF Truthy(currentTopic) /\ Truthy(context.topic) /\ currentTopic = context.topic
             THEN TRUE
           ELSE IF isConversationContinuation(userMessage, context.lastUserMessage) THEN TRUE
           ELSE FALSE

\* getContinuationSpeaker that returns the speaker of the oldest history entry.
getContinuationSpeaker_OldestSpeaker(context) ==
  IF Len(context.speakerHistory) = 0 THEN context.currentSpeaker
  ELSE context.speakerHistory[1].speaker

\* ConversationContext.getContinuationSpeaker on the context that
\* getUserContext returned.
getContinuationSpeaker(context) == context.currentSpeaker

\* A DELETE handler that leaves the store as it is.
deleteContext_KeepsEntry(ctxs, userId, character) == ctxs

\* A DELETE handler that removes the user's whole map: contexts.delete(userId).
deleteContext_WholeUser(ctxs, userId, character) ==
  IF userId \in DOMAIN ctxs THEN MapDelete(ctxs, userId) ELSE ctxs

\* The store after DELETE /api/conversation-context/:character
deleteContext(ctxs, userId, character) ==
  IF userId \in DOMAIN ctxs
    THEN MapSet(ctxs, userId, MapDelete(ctxs[userId], character))
    ELSE ctxs

\* ------------------------------------------------------------------------
\* Group configuration and speaker selection.

groupConfigs ==
  [TieSanJiao |->
     [members |-> <<"WangPangzi", "WuXie", "ZhangQiling">>,
      memberDetails |-> [WangPangzi |-> [maxTokens |-> 150],
                         WuXie |-> [maxTokens |-> 200],
                         ZhangQiling |-> [maxTokens |-> 30]]],
   NenNiuLiuFang |->
     [members |-> <<"HeiXiazi", "XieYuchen", "HuoXiuxiu", "WangPangzi", "WuXie", "ZhangQiling">>,
      memberDetails |-> [HeiXiazi |-> [maxTokens |-> 150],
                         XieYuchen |-> [maxTokens |-> 180],
                         HuoXiuxiu |-> [maxTokens |-> 160],
                         WangPangzi |-> [maxTokens |-> 150],
                         WuXie |-> [maxTokens |-> 200],
                         ZhangQiling |-> [maxTokens |-> 30]]]]

\* groupConfigs[character] is truthy
IsGroupChat(character) == character \in DOMAIN groupConfigs

\* Array.prototype.includes on a member list
SeqIncludes(s, x) == \E i \in 1..Len(s) : s[i] = x

speakerKeywords ==
  <<
    [speaker |-> "ZhangQiling", keywords |->
      <<
        <<"xiao", "ge">>, <<"zu", "zhang3">>, <<"zhang", "qi", "ling">>,
        <<"men", "you", "ping">>, <<"xiao", "ge", "zai", "ma">>,
        <<"zhang", "qi", "ling", "zai", "ma">>
      >>],
    [speaker |-> "WangPangzi", keywords |->
      <<
        <<"pang", "zi">>, <<"wang", "pang", "zi">>, <<"pang", "ye">>,
        <<"pang", "zi", "zai", "ma">>, <<"wang", "pang", "zi", "zai", "ma">>
      >>],
    [speaker |-> "WuXie", keywords |->
      <<
        <<"wu", "xie">>, <<"tian", "zhen">>, <<"xiao", "san", "ye">>,
        <<"wu", "xie", "zai", "ma">>
      >>],
    [speaker |-> "HeiXiazi", keywords |->
      <<
        <<"hei", "xia", "zi">>, <<"hei", "xia", "zi", "zai", "ma">>
      >>],
    [speaker |-> "XieYuchen", keywords |->
      <<
        <<"xie4", "yu", "chen">>, <<"hua", "er">>, <<"hua", "er", "ye">>,
        <<"xie4", "yu", "chen", "zai", "ma">>
      >>],
    [speaker |-> "HuoXiuxiu", keywords |->
      <<
        <<"huo", "xiu", "xiu">>, <<"xiu", "xiu">>, <<"huo", "xiu", "xiu", "zai", "ma">>
      >>]
  >>

\* getMentionedSpeakers (the module-level function)
getMentionedSpeakers(message) == MentionedIn(speakerKeywords, message)

keywordMapping ==
  <<
    [speaker |-> "ZhangQiling", keywords |->
      <<
        <<"xiao", "ge">>, <<"zu", "zhang3">>, <<"zhang", "qi", "ling">>,
        <<"men", "you", "ping">>, <<"shen1", "shou">>, <<"wu3", "gong">>, <<"li4", "hai4">>,
        <<"qiang">>
      >>],
    [speaker |-> "WangPangzi", keywords |->
      <<
        <<"pang", "zi">>, <<"wang", "pang", "zi">>, <<"pang", "ye">>, <<"gao", "xiao4">>,
        <<"you1", "mo">>, <<"chi", "de">>, <<"qian">>
      >>],
    [speaker |-> "WuXie", keywords |->
      <<
        <<"san", "shu">>, <<"kao", "gu">>, <<"yan", "jiu">>, <<"gu", "dong">>,
        <<"xian4", "suo">>, <<"wei4", "shen2", "me">>, <<"zen", "me">>
      >>],
    [speaker |-> "HeiXiazi", keywords |->
      <<
        <<"hei", "xia", "zi">>, <<"jing", "yan4">>, <<"dao", "shang">>, <<"lao", "lian">>,
        <<"shen", "mi4">>
      >>],
    [speaker |-> "XieYuchen", keywords |->
      <<
        <<"xie4", "yu", "chen">>, <<"hua", "er">>, <<"hua", "er", "ye">>, <<"fen", "xi">>,
        <<"luo", "ji2">>, <<"mu4", "de">>, <<"kao", "lv">>, <<"jin", "shen4">>,
        <<"ji4", "hua4">>
      >>],
    [speaker |-> "HuoXiuxiu", keywords |->
      <<
        <<"huo", "xiu", "xiu">>, <<"xiu", "xiu">>, <<"xi4", "jie2">>, <<"guan1", "cha">>,
        <<"fa", "xian5">>, <<"zhu", "yi">>, <<"nv", "xing">>, <<"xi4", "xin">>,
        <<"cong", "ming">>
      >>]
  >>

\* Math.random() is a draw rnd / RandomDenominator with rnd in 0..RandomDenominator-1.
RandomDenominator == 4

RandomDraws == 0..(RandomDenominator - 1)

\* recentSpeakers taken from the whole history, without slice(-8).
recentSpeakersOf_WholeHistory(conversationHistory) ==
  LET named(msg) == msg.type = "bot" /\ msg.name # ""
      sel == SelectSeq(conversationHistory, named)
  IN  [i \in 1..Len(sel) |-> sel[i].name]

\* conversationHistory.slice(-8).filter(bot and named).map(name)
recentSpeakersOf(conversationHistory) ==
  LET recentMessages == LastN(conversationHistory, 8)
      named(msg) == msg.type = "bot" /\ msg.name # ""
      sel == SelectSeq(recentMessages, named)
  IN  [i \in 1..Len(sel) |-> sel[i].name]

\* speakerCount[member]
speakerCountOf(recentSpeakers, member) ==
  Cardinality({i \in 1..Len(recentSpeakers) : recentSpeakers[i] = member})

\* The number of keywords of keywordMapping[member] in the lower-cased message.
keywordMatches(member, messageLower) ==
  LET rows == {i \in 1..Len(keywordMapping) : keywordMapping[i].speaker = member}
  IN  IF rows = {} THEN 0
      ELSE LET kws == keywordMapping[CHOOSE i \in rows : TRUE].keywords
           IN  Cardinality({k \in 1..Len(kws) : Includes(messageLower, toLowerCase(kws[k]))})

Min2(a, b) == IF a < b THEN a ELSE b
Max2(a, b) == IF a > b THEN a ELSE b

\* The score before the floor with the penalty for every speaker of the
\* window instead of the last one only.
rawScore_PenaltyAnyRecent(member, message, recentSpeakers) ==
    (10 - Min2(speakerCountOf(recentSpeakers, member), 10)) * 3
  + 8 * keywordMatches(member, toLowerCase(message))
  - (IF speakerCountOf(recentSpeakers, member) > 0 THEN 5 ELSE 0)
  - (IF member = "ZhangQiling" THEN 3 ELSE 0)
  + (IF member = "WangPangzi" \/ member = "WuXie" THEN 2 ELSE 0)

\* The score of one member before the floor.
rawScore(member, message, recentSpeakers) ==
    (10 - Min2(speakerCountOf(recentSpeakers, member), 10)) * 3
  + 8 * keywordMatches(member, toLowerCase(message))
  - (IF Len(recentSpeakers) > 0 /\ recentSpeakers[Len(recentSpeakers)] = member THEN 5 ELSE 0)
  - (IF member = "ZhangQiling" THEN 3 ELSE 0)
  + (IF member = "WangPangzi" \/ member = "WuXie" THEN 2 ELSE 0)

\* speakerScores[member] without the Math.max(score, 1) floor.
speakerScore_NoFloor(member, message, recentSpeakers) ==
  rawScore(member, message, recentSpeakers)

\* speakerScores[member]
speakerScore(member, message, recentSpeakers) ==
  Max2(rawScore(member, message, recentSpeakers), 1)

\* speakerScores, in the order of members
speakerScoresOf(members, message, recentSpeakers) ==
  [i \in 1..Len(members) |-> speakerScore(members[i], message, recentSpeakers)]

RECURSIVE SumFrom(_, _)
SumFrom(scores, i) == IF i > Len(scores) THEN 0 ELSE scores[i] + SumFrom(scores, i + 1)

\* totalScore
totalScoreOf(scores) == SumFrom(scores, 1)

\* The least-frequent member of the fallback loop: the first member with the
\* smallest count.
leastFrequentOf(members, recentSpeakers) ==
  LET count(i) == speakerCountOf(recentSpeakers, members[i])
      best == CHOOSE i \in 1..Len(members) :
                /\ \A j \in 1..Len(members) : count(i) <= count(j)
                /\ \A j \in 1..(i - 1) : count(j) > count(i)
  IN  members[best]

\* The walk with "random < 0" for "random <= 0".
RECURSIVE WeightedWalk_StrictlyNegative(_, _, _, _, _)
WeightedWalk_StrictlyNegative(members, i, random, scores, recentSpeakers) ==
  IF i > Len(members)
    THEN [speaker |-> leastFrequentOf(members, recentSpeakers), path |-> "leastFrequent"]
  ELSE LET rest == random - scores[i] * RandomDenominator
       IN  IF rest < 0 THEN [speaker |-> members[i], path |-> "weighted"]
           ELSE WeightedWalk_StrictlyNegative(members, i + 1, rest, scores, recentSpeakers)

\* The walk "random -= speakerScores[member]; if (random <= 0) return member",
\* with random kept multiplied by RandomDenominator.
RECURSIVE WeightedWalk(_, _, _, _, _)
WeightedWalk(members, i, random, scores, recentSpeakers) ==
  IF i > Len(members)
    THEN [speaker |-> leastFrequentOf(members, recentSpeakers), path |-> "leastFrequent"]
  ELSE LET rest == random - scores[i] * RandomDenominator
       IN  IF rest <= 0 THEN [speaker |-> members[i], path |-> "weighted"]
           ELSE WeightedWalk(members, i + 1, rest, scores, recentSpeakers)

\* Steps 2 to 5 of selectSpeakerByContext (lines 988-1084), taken when no
\* member is mentioned; random is the value of Math.random() * totalScore,
\* multiplied by RandomDenominator.
selectSpeakerByScores(character, message, conversationHistory, random) ==
  LET members == groupConfigs[character].members
      recentSpeakers == recentSpeakersOf(conversationHistory)
      scores == speakerScoresOf(members, message, recentSpeakers)
  IN  WeightedWalk(members, 1, random, scores, recentSpeakers)

\* mentionedSpeakers.filter(speaker => members.includes(speaker))
availableMentionedOf(members, message) ==
  LET isMember(speaker) == SeqIncludes(members, speaker)
  IN  SelectSeq(getMentionedSpeakers(message), isMember)

\* selectSpeakerByContext with "availableMentioned.length > 1" for "> 0": a
\* single mention goes on to the scores.
selectSpeakerByContext_SingleMentionScored(character, message, conversationHistory, rnd) ==
  LET members == groupConfigs[character].members
      availableMentioned == availableMentionedOf(members, message)
      recentSpeakers == recentSpeakersOf(conversationHistory)
  IN  IF Len(availableMentioned) > 1
        THEN [speaker |-> availableMentioned[1], path |-> "mention"]
        ELSE LET scores == speakerScoresOf(members, message, recentSpeakers)
             IN  WeightedWalk(members, 1, rnd * totalScoreOf(scores), scores, recentSpeakers)

\* selectSpeakerByContext that returns the last available mentioned member.
selectSpeakerByContext_LastMentioned(character, message, conversationHistory, rnd) ==
  LET members == groupConfigs[character].members
      availableMentioned == availableMentionedOf(members, message)
      recentSpeakers == recentSpeakersOf(conversationHistory)
  IN  IF Len(availableMentioned) > 0
        THEN [speaker |-> availableMentioned[Len(availableMentioned)], path |-> "mention"]
        ELSE LET scores == speakerScoresOf(members, message, recentSpeakers)
             IN  WeightedWalk(members, 1, rnd * totalScoreOf(scores), scores, recentSpeakers)

\* selectSpeakerByContext; rnd is the value Math.random() returns if it is
\* called. The result names the return statement taken: "mention" (line 984),
\* "weighted" (line 1069) or "leastFrequent" (line 1084).
selectSpeakerByContext(character, message, conversationHistory, rnd) ==
  LET members == groupConfigs[character].members
      availableMentioned == availableMentionedOf(members, message)
      recentSpeakers == recentSpeakersOf(conversationHistory)
  IN  IF Len(availableMentioned) > 0
        THEN [speaker |-> availableMentioned[1], path |-> "mention"]
        ELSE LET scores == speakerScoresOf(members, message, recentSpeakers)
             IN  WeightedWalk(members, 1, rnd * totalScoreOf(scores), scores, recentSpeakers)

\* ------------------------------------------------------------------------
\* Reply post-processing and stock replies.

\* The value of a surrogate code unit.
UnitValue(c) ==
  CASE c = "D83D" -> 55357
    [] c = "DE00" -> 56832
    [] c = "D83E" -> 55358
    [] c = "DD14" -> 56596
    [] OTHER -> 0

IsHighSurrogate(c) == UnitValue(c) >= 55296 /\ UnitValue(c) <= 56319
IsLowSurrogate(c) == UnitValue(c) >= 56320 /\ UnitValue(c) <= 57343

\* The code point of a surrogate pair.
CodePoint(hi, lo) == (UnitValue(hi) - 55296) * 1024 + (UnitValue(lo) - 56320) + 65536

\* The character class of the emoji regular expression: U+1F600-1F64F,
\* U+1F300-1F5FF, U+1F680-1F6FF, U+1F1E0-1F1FF.
InEmojiClass(cp) ==
  \/ (cp >= 128512 /\ cp <= 128591)
  \/ (cp >= 127744 /\ cp <= 128511)
  \/ (cp >= 128640 /\ cp <= 128767)
  \/ (cp >= 127462 /\ cp <= 127487)

\* reply.replace(/[emoji classes]/gu, '')
RECURSIVE StripEmoji(_)
StripEmoji(s) ==
  IF Len(s) = 0 THEN s
  ELSE IF Len(s) >= 2 /\ IsHighSurrogate(s[1]) /\ IsLowSurrogate(s[2])
    THEN IF InEmojiClass(CodePoint(s[1], s[2]))
           THEN StripEmoji(SubSeq(s, 3, Len(s)))
           ELSE <<s[1], s[2]>> \o StripEmoji(SubSeq(s, 3, Len(s)))
  ELSE <<s[1]>> \o StripEmoji(Tail(s))

IsSpace(c) == c = " " \/ c = "\n"

\* String.prototype.trim
RECURSIVE TrimStart(_)
TrimStart(s) == IF Len(s) > 0 /\ IsSpace(s[1]) THEN TrimStart(Tail(s)) ELSE s

RECURSIVE TrimEnd(_)
TrimEnd(s) ==
  IF Len(s) > 0 /\ IsSpace(s[Len(s)]) THEN TrimEnd(SubSeq(s, 1, Len(s) - 1)) ELSE s

trim(s) == TrimEnd(TrimStart(s))

\* Math.floor(Math.random() * n) for the draw rnd / RandomDenominator
RandomIndex(rnd, n) == (rnd * n) \div RandomDenominator

shortReplies ==
  <<
    <<"en">>, <<"hao">>, <<"xiao", "xin">>, <<"wei1", "xian">>, <<".", ".", ".">>,
    <<"bu", "xing2">>, <<"you3", "dong1", "xi1b">>
  >>

\* enforceCharacterConsistency; rnd is the value Math.random() returns if it
\* is called.
enforceCharacterConsistency(reply, speaker, rnd) ==
  IF speaker = "ZhangQiling"
    THEN LET stripped == StripEmoji(reply)
             cut == IF Len(stripped) > 20
                      THEN SubSeq(stripped, 1, 20) \o <<".", ".", ".">>
                      ELSE stripped
             short == IF Len(cut) > 25
                        THEN shortReplies[RandomIndex(rnd, Len(shortReplies)) + 1]
                        ELSE cut
         IN  trim(short)
    ELSE trim(reply)

fallbacks ==
  <<
    [speaker |-> "WangPangzi", replies |->
      <<

        <<"hei1", "fw_comma", "nin", "zhe4", "hua5", "wen", "dei", "fw_excl", "pang", "ye", "wo", "dei", "zhuo", "mo2", "zhuo", "mo2", "fw_stop">>,
        <<"zhe4", "wei4b", "peng", "you3b", "xiao1", "xi1", "ling", "tong1", "a", "fw_excl", "da", "na3", "er", "ting", "lai", "de", "fw_q">>,
        <<"hao", "jia", "huo3", "fw_comma", "zhe4", "shi4", "er", "nin", "dou", "zhi", "dao", "fw_q", "kao4", "pu", "fw_excl">>
      >>],
    [speaker |-> "WuXie", replies |->
      <<

        <<"zhe4", "jian4", "shi4", "shuo", "lai", "hua5", "zhang3", ".", ".", ".", "ni", "shi", "zen", "me", "zhi", "dao", "zhe4", "xie1", "de", "fw_q">>,
        <<"san", "shu", "yao", "shi", "zhi", "dao", "wo", "zai", "liao", "zhe4", "ge4", ".", ".", ".">>,
        <<"zhe4", "ge4", "xian4", "suo", "hen", "you3", "yi", "si", "fw_comma", "wo", "hai", "zai", "yan", "jiu", "zhong", "fw_stop">>
      >>],
    [speaker |-> "ZhangQiling", replies |->
      <<
        <<".", ".", ".">>, <<"xiao", "xin">>, <<"wei1", "xian">>,
        <<"you3", "dong1", "xi1b">>
      >>],
    [speaker |-> "HeiXiazi", replies |->
      <<
        <<"xin1", "mian", "kong", "fw_q", "you3", "dian", "yi", "si", "fw_stop">>,
        <<"ni", "zhe4", "wen", "ti", "wen", "dei", "ting3", "diao", "zuan", "a", "fw_stop">>,
        <<"jing", "yan4", "gao4", "su", "wo", "fw_comma", "zhe4", "shi4", "er", "bu", "jian", "dan", "fw_stop">>
      >>],
    [speaker |-> "XieYuchen", replies |->
      <<
        <<"cong2", "luo", "ji2", "shang", "fen", "xi", ".", ".", ".">>,
        <<"ni", "de", "mu4", "de", "shi", "shen2", "me", "fw_q">>,
        <<"zhe4", "jian4", "shi4", "xu", "yao", "jin", "shen4", "kao", "lv", "fw_stop">>
      >>],
    [speaker |-> "HuoXiuxiu", replies |->
      <<
        <<"wo", "zhu", "yi", "dao4", "yi1", "ge4", "xi4", "jie2", ".", ".", ".">>,
        <<"ni", "de", "guan1", "cha", "hen", "min", "rui", "fw_stop">>,
        <<"zhe4", "ge4", "fa", "xian5", "hen", "you3", "yi", "si", "fw_stop">>
      >>]
  >>

defaultGroupFallback == <<"wo", "xian5", "zai", "wu2", "fa3", "hui", "fu", "fw_stop">>

\* fallbacks[speaker] || [default]
speakerFallbacksOf(speaker) ==
  LET rows == {i \in 1..Len(fallbacks) : fallbacks[i].speaker = speaker}
  IN  IF rows = {} THEN <<defaultGroupFallback>>
      ELSE fallbacks[CHOOSE i \in rows : TRUE].replies

\* getGroupFallbackResponse that looks up no persona: the default reply.
getGroupFallbackResponse_DefaultOnly(speaker, rnd) ==
  LET speakerFallbacks == <<defaultGroupFallback>>
  IN  speakerFallbacks[RandomIndex(rnd, Len(speakerFallbacks)) + 1]

\* getGroupFallbackResponse
getGroupFallbackResponse(speaker, rnd) ==
  LET speakerFallbacks == speakerFallbacksOf(speaker)
  IN  speakerFallbacks[RandomIndex(rnd, Len(speakerFallbacks)) + 1]

characterFallbacks ==
  <<
    [character |-> "KeLaiEn", reply |->
      <<"u62B1", "u6B49", "fw_comma", "u5360", "u535C", "u663E", "u793A", "xian5", "zai",
        "bu", "shi", "u4EA4", "u6D41", "de", "hao", "u65F6", "ji", "fw_stop", "u4E5F",
        "u8BB8", "u7A0D", "hou", "u518D", "u8BD5", "fw_q", "D83D", "DD2E">>],
    [character |-> "YuZhe", reply |->
      <<"u7070", "u96FE", "u6682", "u65F6", "u906E", "u853D", "u4E86", "hui", "u5E94", ".",
        ".", ".", "u8BF7", "u7A0D", "hou", "u518D", "u7948", "u7977", "fw_stop", "D83C",
        "DF2B", "uFE0F">>],
    [character |-> "WuXie", reply |->
      <<"zhe4", "ge4", "wen", "ti", "you3", "dian", "fu", "u6742", "fw_comma", "u8BA9",
        "wo", "u518D", "yan", "jiu", "yan", "jiu", ".", ".", ".", "D83D", "DCDA">>],
    [character |-> "ZhangQiling", reply |->
      <<".", ".", ".">>],
    [character |-> "HanLi", reply |->
      <<"ci", "shi4", "xu", "cong2", "zhang3", "ji4", "u8BAE", "fw_stop", "D83E", "DDD8">>],
    [character |-> "TaLuoHui", reply |->
      <<"u5854", "u7F57", "u4F1A", "u6210", "u5458", "u6B63", "zai", "u8BA8", "u8BBA",
        "zhong", ".", ".", ".", "D83C", "DCCF">>],
    [character |-> "TieSanJiao", reply |->
      <<"wo", "men5", "u6B63", "zai", "u5546", "u91CF", "zhe4", "jian4", "shi4", ".", ".",
        ".", "D83D", "DD3A">>],
    [character |-> "NenNiuLiuFang", reply |->
      <<"u56E2", "u961F", "u6B63", "zai", "u8BC4", "u4F30", "u60C5", "u51B5", ".", ".",
        ".", "D83D", "DDFA", "uFE0F">>],
    [character |-> "ShenLingJuHui", reply |->
      <<"shen", "ling", "men5", "u6B63", "zai", "u5546", "u8BAE", ".", ".", ".", "u2728">>]
  >>

defaultFallback ==
  <<"wo", "xian5", "zai", "wu2", "fa3", "hui", "fu", "fw_comma", "u8BF7", "u7A0D", "hou",
    "u518D", "u8BD5", "fw_stop">>

\* getFallbackResponse
getFallbackResponse(character) ==
  LET rows == {i \in 1..Len(characterFallbacks) : characterFallbacks[i].character = character}
  IN  IF rows = {} THEN defaultFallback
      ELSE characterFallbacks[CHOOSE i \in rows : TRUE].reply

\* generateCacheKey with no speaker: character, 'default', the message and the
\* history as "type:text" joined by "|".
RECURSIVE historyTextOf(_)
historyTextOf(conversationHistory) ==
  IF Len(conversationHistory) = 0 THEN <<>>
  ELSE LET msg == conversationHistory[1]
           one == <<msg.type, ":">> \o msg.text
       IN  IF Len(conversationHistory) = 1 THEN one
           ELSE one \o <<"|">> \o historyTextOf(Tail(conversationHistory))

generateCacheKey(character, message, conversationHistory) ==
  <<character, ":", "default", ":">> \o message \o <<":">> \o historyTextOf(conversationHistory)

\* ------------------------------------------------------------------------
\* The inputs of the model.

\* U+738B U+80D6 U+5B50 U+5728 U+5417: mentions WangPangzi, 5 code units
msgWangPangziZaiMa == <<"wang", "pang", "zi", "zai", "ma">>
\* U+5434 U+90AA U+548C U+5C0F U+54E5: mentions WuXie and ZhangQiling
msgWuXieHeXiaoGe == <<"wu", "xie", "he2", "xiao", "ge">>
\* U+7136 U+540E U+5462: a continuation indicator, no mention, no topic
msgRanHouNe == <<"ran", "hou", "ne">>
\* U+9ED1 U+778E U+5B50 U+5728 U+5417: mentions HeiXiazi only
msgHeiXiaziZaiMa == <<"hei", "xia", "zi", "zai", "ma">>
\* U+9ED1 U+778E U+5B50 U+548C U+80D6 U+5B50: mentions HeiXiazi and WangPangzi
msgHeiXiaziHePangzi == <<"hei", "xia", "zi", "he2", "pang", "zi">>
\* U+53E4 U+5893 U+91CC U+6709 U+4EC0 U+4E48 U+673A U+5173: topic "gu mu",
\* 8 code units, no mention, no continuation indicator
msgGuMuJiGuan == <<"gu", "mu", "li3", "you3", "shen2", "me", "ji", "guan">>
\* U+4ECA U+5929 U+5929 U+6C14 U+4E0D U+9519 U+6211 U+4EEC U+51FA U+53D1:
\* no topic, no mention, no indicator, 10 code units
msgTianQi == <<"jin1", "tian", "tian", "qi4", "bu", "cuo", "wo", "men5", "chu", "fa">>
\* U+6211 U+4EEC U+53BB U+54EA U+91CC "?": a question, 6 code units
msgQuNaLi == <<"wo", "men5", "qu", "na3", "li3", "?">>

\* Every message the properties range over.
Messages ==
  {msgWangPangziZaiMa, msgWuXieHeXiaoGe, msgRanHouNe, msgHeiXiaziZaiMa,
   msgHeiXiaziHePangzi, msgGuMuJiGuan, msgTianQi, msgQuNaLi}

\* Client-side history entries {type, name, text}; name "" is a missing name.
histUser(text) == [type |-> "user", name |-> "", text |-> text]
histBot(name, text) == [type |-> "bot", name |-> name, text |-> text]

replyHao == <<"hao">>

histZhangLast ==
  <<histUser(msgTianQi), histBot("WangPangzi", replyHao),
    histUser(msgQuNaLi), histBot("ZhangQiling", replyHao)>>

\* Nine bot entries of WuXie after one of WangPangzi: the window of 8 drops
\* the first two entries.
histLong ==
  <<histBot("WangPangzi", replyHao), histUser(msgTianQi)>>
  \o [i \in 1..9 |-> histBot("WuXie", replyHao)]

histUnnamed == <<histBot("", replyHao), histBot("HuoXiuxiu", replyHao)>>

Histories == {<<>>, histZhangLast, histLong, histUnnamed}

\* D83D DE00 is U+1F600; 24 further code units.
replyLongEmoji ==
  <<"D83D", "DE00", "zhe4", "shi", "yi1", "ge4", "ce", "shi", "de", "chao", "zhang3", "ju",
    "zi", "wan", "quan", "chao", "guo", "xian4", "zhi", "zhang3", "du", "kan", "kan",
    "hui", "bu", "hui">>

UserIds == {"u1"}
GroupIds == {"TieSanJiao"}

\* The requests that can be in flight at once.
Slots == <<"r1", "r2">>
SlotIds == {Slots[i] : i \in 1..Len(Slots)}

\* The number of POST /api/chat requests of a run.
MaxRequests == 3

\* The inputs of POST /api/chat as <<character, message>>; "" and <<>> are a
\* missing character and a missing message. "KeLaiEn" is a single-chat
\* character.
ChatInputs ==
  {<<"TieSanJiao", msgWangPangziZaiMa>>, <<"TieSanJiao", msgRanHouNe>>,
   <<"KeLaiEn", msgRanHouNe>>, <<"", msgRanHouNe>>, <<"TieSanJiao", <<>>>>}
ChatHistories == {<<>>}
ApiReplies == {replyLongEmoji}

\* ------------------------------------------------------------------------
\* State.

VARIABLES
  contexts,       \* conversationContext.contexts
  responseCache,  \* responseCache.cache: key -> cached reply
  requests,       \* slot -> the POST /api/chat request awaiting its outbound call
  sent,           \* the request answered last, with its response
  started,        \* the number of POST /api/chat requests so far
  now,            \* Date.now() of the next updateContext
  resetPending,   \* history: the (user, character) reset and not read since
  sel,            \* selection check: the inputs and the result
  applied         \* history check: the updateContext calls so far

vars ==
  <<contexts, responseCache, requests, sent, started, now, resetPending, sel, applied>>

NoResponse ==
  [status |-> 0, reply |-> NullStr, speaker |-> Null, error |-> "", fallback |-> FALSE,
   cached |-> FALSE]

\* A slot with no request; the fields of a request: its inputs, the decision
\* of handleGroupChatSmart (shouldContinue, selectedSpeaker), and history
\* fields: path is the return statement that chose the speaker, speakerBefore
\* the context's currentSpeaker at the decision, updates the number of
\* updateContext calls of the request, completion what its outbound call did
\* ("none", "ok", "failed"), systemPrompt which prompt handleSingleChat sends
\* ("none", "character", "default"), calls the number of axios.post calls of
\* the request.
IdleRequest ==
  [pc |-> "idle", userId |-> "", character |-> "", message |-> <<>>, cacheKey |-> <<>>,
   selectedSpeaker |-> Null, shouldContinue |-> FALSE, path |-> "none",
   speakerBefore |-> Null, updates |-> 0, completion |-> "none",
   systemPrompt |-> "none", calls |-> 0, response |-> NoResponse]

NoSel == [done |-> FALSE, character |-> "", message |-> <<>>, history |-> <<>>, rnd |-> 0,
          speaker |-> Null, path |-> "none",
          recentSpeakers |-> <<>>, rawScores |-> <<>>, speakerScores |-> <<>>,
          topic |-> NullStr]

\* The history variable's step for a getUserContext(userId, character) call.
NoteGet(userId, character) ==
  resetPending' = resetPending \ {<<userId, character>>}

Init ==
  /\ contexts = EmptyMap
  /\ responseCache = EmptyMap
  /\ requests = [s \in SlotIds |-> IdleRequest]
  /\ sent = IdleRequest
  /\ started = 0
  /\ now = 1
  /\ resetPending = {}
  /\ sel = NoSel
  /\ applied = <<>>

\* The first slot with no request in flight.
FreeSlot(s) ==
  /\ requests[s].pc = "idle"
  /\ \A i \in 1..Len(Slots) :
       Slots[i] = s => \A j \in 1..(i - 1) : requests[Slots[j]].pc # "idle"

\* handleGroupChatSmart up to the outbound call: the continuity decision and
\* the selection.
groupDecision(ctxs, userId, character, message, conversationHistory, rnd) ==
  LET store == getUserContextStore(ctxs, userId, character)
      context == store[userId][character]
      shouldContinue == shouldContinueWithSameSpeaker(context, message)
      chosen == IF shouldContinue
                  THEN [speaker |-> getContinuationSpeaker(context), path |-> "continue"]
                  ELSE selectSpeakerByContext(character, message, conversationHistory, rnd)
  IN  [store |-> store, shouldContinue |-> shouldContinue,
       selectedSpeaker |-> chosen.speaker, path |-> chosen.path,
       speakerBefore |-> context.currentSpeaker]

\* The response of a request that ends without a completion.
respond(req, status, reply, speaker, error, fallback, cached) ==
  [req EXCEPT !.pc = "done",
              !.response = [status |-> status, reply |-> reply, speaker |-> speaker,
                            error |-> error, fallback |-> fallback, cached |-> cached]]

\* The keys of characterPrompts. "YuZhe" U+611A U+8005, "HanLi" U+97E9 U+7ACB,
\* "TaLuoHui" U+5854 U+7F57 U+4F1A, "ShenLingJuHui" U+795E U+7075 U+805A U+4F1A.
characterPromptNames ==
  {"KeLaiEn", "YuZhe", "WuXie", "ZhangQiling", "HanLi", "TaLuoHui", "ShenLingJuHui"}

\* characterPrompts[character] || the default prompt
systemPromptOf(character) ==
  IF character \in characterPromptNames THEN "character" ELSE "default"

\* A validation that tests the message only: "if (!message)".
MissingInput_MessageOnly(character, message) == message = <<>>

\* !character || !message
MissingInput(character, message) == character = "" \/ message = <<>>

\* POST /api/chat up to its first await: validation, then handleGroupChatSmart
\* or handleSingleChat up to the outbound call. expired is whether a cached
\* entry has passed its expiry.
ChatRequest(s, userId, character, message, conversationHistory, rnd, expired) ==
  /\ started < MaxRequests
  /\ FreeSlot(s)
  /\ started' = started + 1
  /\ UNCHANGED <<now, sel, applied>>
  /\ LET req == [IdleRequest EXCEPT !.userId = userId, !.character = character,
                                    !.message = message]
     IN
     IF MissingInput(character, message)
       THEN /\ sent' = respond(req, 400, NullStr, Null, "Missing character or message",
                               FALSE, FALSE)
            /\ UNCHANGED <<contexts, responseCache, requests, resetPending>>
     ELSE IF IsGroupChat(character)
       THEN LET d == groupDecision(contexts, userId, character, message,
                                   conversationHistory, rnd)
                decided == [req EXCEPT !.selectedSpeaker = d.selectedSpeaker,
                                       !.shouldContinue = d.shouldContinue,
                                       !.path = d.path,
                                       !.speakerBefore = d.speakerBefore]
            IN  /\ contexts' = d.store
                /\ NoteGet(userId, character)
                /\ UNCHANGED responseCache
                /\ IF d.selectedSpeaker \in DOMAIN groupConfigs[character].memberDetails
                     THEN /\ requests' = [requests EXCEPT ![s] =
                                            [decided EXCEPT !.pc = "awaiting",
                                                            !.calls = 1]]
                          /\ UNCHANGED sent
                     \* speakerConfig is undefined: the TypeError reaches the
                     \* catch of POST /api/chat
                     ELSE /\ sent' = respond(decided, 200, getFallbackResponse(character),
                                             Null, "AI service unavailable", TRUE, FALSE)
                          /\ UNCHANGED requests
     ELSE LET cacheKey == generateCacheKey(character, message, conversationHistory)
              present == cacheKey \in DOMAIN responseCache
              keyed == [req EXCEPT !.cacheKey = cacheKey]
          IN  /\ UNCHANGED <<contexts, resetPending>>
              /\ IF present /\ ~expired
                   THEN /\ sent' = respond(keyed, 200, responseCache[cacheKey], Null, "",
                                           FALSE, TRUE)
                        /\ UNCHANGED <<requests, responseCache>>
                   ELSE /\ requests' = [requests EXCEPT ![s] =
                                          [keyed EXCEPT !.pc = "awaitingSingle",
                                                        !.calls = 1,
                                                        !.systemPrompt =
                                                          systemPromptOf(character)]]
                        /\ responseCache' = IF present THEN MapDelete(responseCache, cacheKey)
                                            ELSE responseCache
                        /\ UNCHANGED sent

\* handleGroupChatSmart after the outbound call returned a completion:
\* lines 761-775.
GroupCompletion(s, content, rnd) ==
  /\ requests[s].pc = "awaiting"
  /\ LET r == requests[s]
         aiReply == enforceCharacterConsistency(trim(content), r.selectedSpeaker, rnd)
     IN  /\ contexts' = updateContext(contexts, r.userId, r.character, r.selectedSpeaker,
                                      r.message, now)
         /\ NoteGet(r.userId, r.character)
         /\ sent' = respond([r EXCEPT !.updates = r.updates + 1, !.completion = "ok"],
                            200, aiReply,
                            r.selectedSpeaker, "", FALSE, FALSE)
  /\ requests' = [requests EXCEPT ![s] = IdleRequest]
  /\ now' = now + 1
  /\ UNCHANGED <<responseCache, started, sel, applied>>

\* A catch block that calls the completion service a second time before it
\* falls back.
GroupCompletionFailed_RetriesOnce(s, rnd) ==
  /\ requests[s].pc = "awaiting"
  /\ LET r == requests[s]
     IN  IF r.calls < 2
           THEN /\ requests' = [requests EXCEPT ![s].calls = r.calls + 1]
                /\ UNCHANGED sent
           ELSE /\ sent' = respond([r EXCEPT !.completion = "failed"], 200,
                                   getGroupFallbackResponse(r.selectedSpeaker, rnd),
                                   r.selectedSpeaker,
                                   "AI service unavailable, fallback reply", TRUE, FALSE)
                /\ requests' = [requests EXCEPT ![s] = IdleRequest]
  /\ UNCHANGED <<contexts, responseCache, started, now, resetPending, sel, applied>>

\* handleGroupChatSmart after the outbound call failed: the catch block,
\* lines 776-786.
GroupCompletionFailed(s, rnd) ==
  /\ requests[s].pc = "awaiting"
  /\ LET r == requests[s]
     IN  sent' = respond([r EXCEPT !.completion = "failed"], 200,
                         getGroupFallbackResponse(r.selectedSpeaker, rnd),
                         r.selectedSpeaker, "AI service unavailable, fallback reply",
                         TRUE, FALSE)
  /\ requests' = [requests EXCEPT ![s] = IdleRequest]
  /\ UNCHANGED <<contexts, responseCache, started, now, resetPending, sel, applied>>

\* handleSingleChat after the outbound call returned a completion.
SingleCompletion(s, content) ==
  /\ requests[s].pc = "awaitingSingle"
  /\ LET r == requests[s]
     IN  /\ responseCache' = MapSet(responseCache, r.cacheKey, content)
         /\ sent' = respond([r EXCEPT !.completion = "ok"], 200, content, Null, "",
                            FALSE, FALSE)
  /\ requests' = [requests EXCEPT ![s] = IdleRequest]
  /\ UNCHANGED <<contexts, started, now, resetPending, sel, applied>>

\* handleSingleChat after the outbound call failed.
SingleCompletionFailed(s) ==
  /\ requests[s].pc = "awaitingSingle"
  /\ LET r == requests[s]
     IN  sent' = respond([r EXCEPT !.completion = "failed"], 200,
                         getFallbackResponse(r.character), Null,
                         "AI service unavailable, fallback reply", TRUE, FALSE)
  /\ requests' = [requests EXCEPT ![s] = IdleRequest]
  /\ UNCHANGED <<contexts, responseCache, started, now, resetPending, sel, applied>>

\* GET /api/conversation-context/:character
GetConversationContext(userId, character) ==
  /\ contexts' = getUserContextStore(contexts, userId, character)
  /\ NoteGet(userId, character)
  /\ UNCHANGED <<responseCache, requests, sent, started, now, sel, applied>>

\* DELETE /api/conversation-context/:character
ResetConversationContext(userId, character) ==
  /\ contexts' = deleteContext(contexts, userId, character)
  /\ resetPending' = resetPending \cup {<<userId, character>>}
  /\ UNCHANGED <<responseCache, requests, sent, started, now, sel, applied>>

\* The draws, the expiry and the histories that a request's path can read: a
\* group request whose message mentions a member reads neither the history
\* nor Math.random(); a single-chat request is sent with an empty history.
ReadsScores(character, message) ==
  /\ character # "" /\ message # <<>> /\ IsGroupChat(character)
  /\ Len(availableMentionedOf(groupConfigs[character].members, message)) = 0

DrawsOf(character, message) ==
  IF ReadsScores(character, message) THEN RandomDraws ELSE {0}

ExpiryOf(character, message) ==
  IF character # "" /\ message # <<>> /\ ~IsGroupChat(character) THEN BOOLEAN ELSE {FALSE}

HistoriesOf(character, message) ==
  IF ReadsScores(character, message) THEN ChatHistories ELSE {<<>>}

\* enforceCharacterConsistency draws only for ZhangQiling.
ReplyDrawsOf(speaker) == IF speaker = "ZhangQiling" THEN RandomDraws ELSE {0}

Next ==
  \/ \E s \in SlotIds, userId \in UserIds, input \in ChatInputs :
       \E conversationHistory \in HistoriesOf(input[1], input[2]),
          rnd \in DrawsOf(input[1], input[2]), expired \in ExpiryOf(input[1], input[2]) :
         ChatRequest(s, userId, input[1], input[2], conversationHistory, rnd, expired)
  \/ \E s \in SlotIds, content \in ApiReplies :
       \E rnd \in ReplyDrawsOf(requests[s].selectedSpeaker) : GroupCompletion(s, content, rnd)
  \/ \E s \in SlotIds, rnd \in RandomDraws : GroupCompletionFailed(s, rnd)
  \/ \E s \in SlotIds, content \in ApiReplies : SingleCompletion(s, content)
  \/ \E s \in SlotIds : SingleCompletionFailed(s)
  \/ \E userId \in UserIds, character \in GroupIds :
       GetConversationContext(userId, character)
  \/ \E userId \in UserIds, character \in GroupIds :
       ResetConversationContext(userId, character)

Spec == Init /\ [][Next]_vars

\* ------------------------------------------------------------------------
\* selectSpeakerByContext on its own: the inputs are drawn at the start and
\* the function is applied to them.

InitSelect ==
  /\ contexts = EmptyMap
  /\ responseCache = EmptyMap
  /\ requests = [s \in SlotIds |-> IdleRequest]
  /\ sent = IdleRequest
  /\ started = 0
  /\ now = 1
  /\ resetPending = {}
  /\ applied = <<>>
  /\ \E character \in DOMAIN groupConfigs, message \in Messages,
        conversationHistory \in Histories, rnd \in RandomDraws :
       sel = [NoSel EXCEPT !.character = character, !.message = message,
                           !.history = conversationHistory, !.rnd = rnd]

ApplySelect ==
  /\ ~sel.done
  /\ LET chosen == selectSpeakerByContext(sel.character, sel.message, sel.history, sel.rnd)
     IN  sel' = [sel EXCEPT !.done = TRUE, !.speaker = chosen.speaker, !.path = chosen.path]
  /\ UNCHANGED <<contexts, responseCache, requests, sent, started, now, resetPending, applied>>

SpecSelect == InitSelect /\ [][ApplySelect]_vars

\* ------------------------------------------------------------------------
\* updateContext on its own: a run of updateContext calls on one context,
\* with applied the entries pushed so far.

\* The number of updateContext calls of a run.
MaxUpdates == 12

UpdateContextCall(speaker, userMessage) ==
  /\ Len(applied) < MaxUpdates
  /\ contexts' = updateContext(contexts, "u1", "TieSanJiao", speaker, userMessage, now)
  /\ applied' = Append(applied, [speaker |-> speaker, timestamp |-> now,
                                 message |-> userMessage])
  /\ now' = now + 1
  /\ UNCHANGED <<responseCache, requests, sent, started, resetPending, sel>>

NextHistory ==
  \E speaker \in {"WangPangzi", "ZhangQiling"} : UpdateContextCall(speaker, msgRanHouNe)

SpecHistory == Init /\ [][NextHistory]_vars

\* ------------------------------------------------------------------------
\* Properties.

\* The mention aliases of a persona are in the message.
MentionsPersona(message, persona) ==
  \E i \in 1..Len(speakerKeywords) :
    speakerKeywords[i].speaker = persona /\ KeywordHit(speakerKeywords[i], message)

MembersOf(character) ==
  {groupConfigs[character].members[i] : i \in 1..Len(groupConfigs[character].members)}

MentionedMembers(character, message) ==
  {persona \in MembersOf(character) : MentionsPersona(message, persona)}

\* C1 as stated: for every member P of the group whose alias is in the
\* message, selectSpeakerByContext returns P, whatever the history and the
\* draw.
C1_EveryMentionedMemberIsReturned ==
  sel.done =>
    \A persona \in MentionedMembers(sel.character, sel.message) : sel.speaker = persona

\* C1 amended: when the message mentions members of the group,
\* selectSpeakerByContext returns one of the mentioned members, whatever the
\* history and the draw; it returns P when P is the only member mentioned.
C1_MentionedMemberIsReturned ==
  sel.done /\ MentionedMembers(sel.character, sel.message) # {} =>
    /\ sel.speaker \in MentionedMembers(sel.character, sel.message)
    /\ \A persona \in MembersOf(sel.character) :
         MentionedMembers(sel.character, sel.message) = {persona} => sel.speaker = persona

\* A single mentioned member is returned although the history is not empty and
\* the draw is not the least one.
C1_Witness ==
  /\ sel.done
  /\ MentionedMembers(sel.character, sel.message) = {"WangPangzi"}
  /\ sel.speaker = "WangPangzi"
  /\ sel.history = histLong
  /\ sel.rnd = RandomDenominator - 1

\* The order in which getMentionedSpeakers detects personas.
DetectionOrder ==
  <<"ZhangQiling", "WangPangzi", "WuXie", "HeiXiazi", "XieYuchen", "HuoXiuxiu">>

\* C2: when the message mentions at least one member of the group, the result
\* is the mentioned member that comes first in detection order, it is returned
\* by the mention path (no score, no draw), and mentioned personas that are
\* not members are skipped.
C2_FirstMentionedMember ==
  sel.done /\ MentionedMembers(sel.character, sel.message) # {} =>
    /\ sel.path = "mention"
    /\ \E i \in 1..Len(DetectionOrder) :
         /\ DetectionOrder[i] = sel.speaker
         /\ sel.speaker \in MentionedMembers(sel.character, sel.message)
         /\ \A j \in 1..(i - 1) :
              DetectionOrder[j] \notin MentionedMembers(sel.character, sel.message)

\* A message that mentions a persona outside the group and a member: the
\* member is returned by the mention path.
C2_Witness ==
  /\ sel.done
  /\ sel.character = "TieSanJiao"
  /\ sel.message = msgHeiXiaziHePangzi
  /\ MentionsPersona(sel.message, "HeiXiazi")
  /\ sel.speaker = "WangPangzi"
  /\ sel.path = "mention"

\* The context getUserContext returns for (userId, character) in this state.
ContextOf(userId, character) == getUserContext(contexts, userId, character)

\* C3: in every reachable state, for every (user, group) and every message,
\* shouldContinueWithSameSpeaker is false when messageCount < 2.
C3_NoContinuationBeforeTwoMessages ==
  \A userId \in UserIds, character \in GroupIds :
    ContextOf(userId, character).messageCount < 2 =>
      \A message \in Messages :
        ~shouldContinueWithSameSpeaker(ContextOf(userId, character), message)

\* A request with a short continuation message was decided "do not continue"
\* on a context with one message and a current speaker.
C3_Witness ==
  \E s \in SlotIds :
    /\ requests[s].pc = "awaiting"
    /\ requests[s].message = msgRanHouNe
    /\ ~requests[s].shouldContinue
    /\ requests[s].speakerBefore # Null
    /\ ContextOf(requests[s].userId, requests[s].character).messageCount = 1

\* The messages that contain a mention alias of some persona.
MentioningMessages ==
  {message \in Messages : \E i \in 1..Len(DetectionOrder) :
                            MentionsPersona(message, DetectionOrder[i])}

C5_HistoryKeepsLastTen ==
  HasContext(contexts, "u1", "TieSanJiao") =>
    LET history == contexts["u1"]["TieSanJiao"].speakerHistory
        n == Len(applied)
    IN  /\ Len(history) <= MaxSpeakerHistory
        /\ Len(history) = IF n < MaxSpeakerHistory THEN n ELSE MaxSpeakerHistory
        /\ \A i \in 1..Len(history) : history[i] = applied[n - Len(history) + i]

\* More than ten updates were applied: the oldest are gone.
C5_Witness ==
  /\ Len(applied) = MaxSpeakerHistory + 2
  /\ HasContext(contexts, "u1", "TieSanJiao")
  /\ Len(contexts["u1"]["TieSanJiao"].speakerHistory) = MaxSpeakerHistory
  /\ contexts["u1"]["TieSanJiao"].speakerHistory[1] = applied[3]
  /\ contexts["u1"]["TieSanJiao"].speakerHistory[1].timestamp = 3

\* C6 as stated: a group request whose completion call failed has updated the
\* context exactly once.
C6_FailedTurnUpdatesContext ==
  sent.pc = "done" /\ IsGroupChat(sent.character) /\ sent.completion = "failed" =>
    sent.updates = 1

\* C7 as stated: same-key requests are serialized: no request has made its
\* continuity decision while another request of the same (user, group) is
\* between its decision and its updateContext.
C7_SameKeySerialized ==
  \A s1, s2 \in SlotIds :
    s1 # s2 /\ requests[s1].pc = "awaiting" /\ requests[s2].pc = "awaiting" =>
      ~(requests[s1].userId = requests[s2].userId
        /\ requests[s1].character = requests[s2].character)

\* C8: while (user, group) was reset and not read since, getUserContext
\* returns a context with messageCount 0, empty history, no speaker, no topic.
C8_ResetThenGetIsDefault ==
  \A key \in resetPending :
    LET context == ContextOf(key[1], key[2])
    IN  /\ context.messageCount = 0
        /\ context.speakerHistory = <<>>
        /\ context.currentSpeaker = Null
        /\ context.topic = NullStr

\* A context that a completed turn had updated was reset.
C8_Witness ==
  /\ sent.updates = 1
  /\ <<sent.userId, sent.character>> \in resetPending

\* C9: a request decided "continue" is given the context's currentSpeaker by
\* the continuation path (no selection), and its update leaves currentSpeaker
\* as it was at the decision.
C9_ContinuationKeepsSpeaker ==
  [][\A s \in SlotIds :
       /\ (requests[s].pc = "idle" /\ requests'[s].pc = "awaiting"
           /\ requests'[s].shouldContinue) =>
            /\ requests'[s].selectedSpeaker =
                 ContextOf(requests'[s].userId, requests'[s].character).currentSpeaker
            /\ requests'[s].path = "continue"
       /\ (requests[s].pc = "awaiting" /\ requests[s].shouldContinue
           /\ requests'[s].pc = "idle" /\ sent'.completion = "ok") =>
            /\ sent'.response.speaker = requests[s].speakerBefore
            /\ contexts'[requests[s].userId][requests[s].character].currentSpeaker
                 = requests[s].speakerBefore]_vars

\* A continued turn completed: the speaker of the response and the context's
\* currentSpeaker are the speaker before the turn.
C9_Witness ==
  /\ sent.pc = "done"
  /\ sent.shouldContinue
  /\ sent.completion = "ok"
  /\ sent.message = msgRanHouNe
  /\ sent.speakerBefore # Null
  /\ sent.response.speaker = sent.speakerBefore
  /\ ContextOf(sent.userId, sent.character).currentSpeaker = sent.speakerBefore

\* The stock fallback replies of a persona.
StockFallbacks(persona) ==
  UNION {{fallbacks[i].replies[k] : k \in 1..Len(fallbacks[i].replies)} :
           i \in {j \in 1..Len(fallbacks) : fallbacks[j].speaker = persona}}

\* C10: a group request whose completion call failed ends with a normal
\* response (status 200) that names the selected persona, is flagged fallback
\* and carries one of that persona's stock fallback replies.
C10_FailureGivesFallbackReply ==
  sent.pc = "done" /\ IsGroupChat(sent.character) /\ sent.completion = "failed" =>
    /\ sent.response.status = 200
    /\ sent.response.fallback
    /\ sent.response.speaker = sent.selectedSpeaker
    /\ sent.selectedSpeaker \in MembersOf(sent.character)
    /\ sent.response.reply \in StockFallbacks(sent.selectedSpeaker)

\* A failed completion answered with a stock reply of the selected persona.
C10_Witness ==
  /\ sent.pc = "done"
  /\ sent.completion = "failed"
  /\ sent.character = "TieSanJiao"
  /\ sent.selectedSpeaker = "WuXie"
  /\ sent.response.reply \in StockFallbacks("WuXie")

\* ------------------------------------------------------------------------
\* Frame conditions of the context store.

\* The (user, group) keys of the request model.
ContextKeys == UserIds \X GroupIds

\* C11: the fields of an existing context entry are changed only by
\* updateContext: a step that is no updateContext call (the continuity
\* decision with getContinuationSpeaker or selectSpeakerByContext, the read
\* endpoint, a failed completion, a single-chat step) leaves every context
\* that exists before and after it as it was. now advances exactly at the
\* updateContext calls.
C11_OnlyUpdateContextWrites ==
  [][now' = now =>
       \A key \in ContextKeys :
         (HasContext(contexts, key[1], key[2]) /\ HasContext(contexts', key[1], key[2])) =>
           contexts'[key[1]][key[2]] = contexts[key[1]][key[2]]]_vars

\* A request took its continuity decision and its selection on a context that
\* a turn had updated, and the context still has that turn's fields.
C11_Witness ==
  \E s \in SlotIds :
    /\ requests[s].pc = "awaiting"
    /\ requests[s].speakerBefore # Null
    /\ requests[s].path = "weighted"
    /\ HasContext(contexts, requests[s].userId, requests[s].character)
    /\ LET context == contexts[requests[s].userId][requests[s].character]
       IN  /\ context.messageCount = 1
           /\ context.currentSpeaker = requests[s].speakerBefore
           /\ Len(context.speakerHistory) = 1

\* ------------------------------------------------------------------------
\* The request model with two users and both groups: group requests with one
\* message, the read endpoint and the reset endpoint on every (user, group).

PairUsers == {"u1", "u2"}
PairGroups == DOMAIN groupConfigs
PairKeys == PairUsers \X PairGroups

\* The number of POST /api/chat requests of a run of this model.
MaxPairRequests == 2

NextPairs ==
  \/ \E s \in SlotIds, userId \in PairUsers, character \in PairGroups :
       /\ started < MaxPairRequests
       /\ ChatRequest(s, userId, character, msgRanHouNe, <<>>, 0, FALSE)
  \/ \E s \in SlotIds, content \in ApiReplies : GroupCompletion(s, content, 0)
  \/ \E s \in SlotIds : GroupCompletionFailed(s, 0)
  \/ \E userId \in PairUsers, character \in PairGroups :
       GetConversationContext(userId, character)
  \/ \E userId \in PairUsers, character \in PairGroups :
       ResetConversationContext(userId, character)

SpecPairs == Init /\ [][NextPairs]_vars

\* The step creates, removes or changes the context of key.
ContextChanged(key) ==
  \/ HasContext(contexts, key[1], key[2]) # HasContext(contexts', key[1], key[2])
  \/ /\ HasContext(contexts, key[1], key[2])
     /\ contexts'[key[1]][key[2]] # contexts[key[1]][key[2]]

\* C12: contexts are isolated per (user, group): no step creates, changes or
\* removes the contexts of two pairs, and the decision and the completion of a
\* request leave the context of every pair other than the request's as it
\* was, under every interleaving of requests, reads and resets.
C12_ContextsIsolated ==
  [][/\ \A k1, k2 \in PairKeys :
          k1 # k2 => ~(ContextChanged(k1) /\ ContextChanged(k2))
     /\ \A s \in SlotIds, key \in PairKeys :
          (requests[s].pc = "awaiting" /\ requests'[s].pc = "idle"
           /\ key # <<requests[s].userId, requests[s].character>>) => ~ContextChanged(key)
     /\ \A s \in SlotIds, key \in PairKeys :
          (requests[s].pc = "idle" /\ requests'[s].pc = "awaiting"
           /\ key # <<requests'[s].userId, requests'[s].character>>)
            => ~ContextChanged(key)]_vars

\* Two groups of one user were updated by a turn each, then one was reset: the
\* other still has its turn.
C12_Witness ==
  \E k1, k2 \in PairKeys :
    /\ k1 # k2 /\ k1[1] = k2[1]
    /\ sent.updates = 1 /\ <<sent.userId, sent.character>> = k1
    /\ k1 \in resetPending /\ ~HasContext(contexts, k1[1], k1[2])
    /\ HasContext(contexts, k2[1], k2[2])
    /\ contexts[k2[1]][k2[2]].messageCount = 1
    /\ contexts[k2[1]][k2[2]].currentSpeaker = groupConfigs[k2[2]].members[1]

\* ------------------------------------------------------------------------
\* enforceCharacterConsistency on its own: the completion's content, the
\* speaker and the draw are chosen at the start, and lines 761-764 are applied
\* to them.

\* 20 code units: not cut.
replyTwenty ==
  <<"zhe4", "shi", "yi1", "ge4", "ce", "shi", "de", "chao", "zhang3", "ju",
    "zi", "wan", "quan", "chao", "guo", "xian4", "zhi", "zhang3", "du", "kan">>

\* 21 code units.
replyTwentyOne == replyTwenty \o <<"kan">>

\* U+1F600, two spaces, 22 code units: the stripped reply starts with spaces.
replyEmojiSpaces == <<"D83D", "DE00", " ", " ">> \o replyTwentyOne \o <<"hui">>

\* U+1F914 (D83E DD14, outside the stripped classes) at code units 20 and 21.
replyPairAtCut ==
  SubSeq(replyTwenty, 1, 19) \o <<"D83E", "DD14">> \o <<"kan", "kan", "hui">>

EnforceReplies ==
  {replyHao, replyTwenty, replyTwentyOne, replyLongEmoji, replyEmojiSpaces, replyPairAtCut}

EnforceSpeakers == {"ZhangQiling", "WangPangzi", "WuXie"}

NoEnforce == [done |-> FALSE, reply |-> <<>>, speaker |-> Null, rnd |-> 0, result |-> NullStr]

InitReply ==
  /\ contexts = EmptyMap
  /\ responseCache = EmptyMap
  /\ requests = [s \in SlotIds |-> IdleRequest]
  /\ sent = IdleRequest
  /\ started = 0
  /\ now = 1
  /\ resetPending = {}
  /\ applied = <<>>
  /\ \E reply \in EnforceReplies, speaker \in EnforceSpeakers, rnd \in RandomDraws :
       sel = [NoEnforce EXCEPT !.reply = reply, !.speaker = speaker, !.rnd = rnd]

ApplyEnforce ==
  /\ ~sel.done
  /\ sel' = [sel EXCEPT !.done = TRUE,
                        !.result = enforceCharacterConsistency(trim(sel.reply), sel.speaker,
                                                               sel.rnd)]
  /\ UNCHANGED <<contexts, responseCache, requests, sent, started, now, resetPending, applied>>

SpecReply == InitReply /\ [][ApplyEnforce]_vars

\* C13 as stated: for ZhangQiling, a reply longer than 20 characters after
\* emoji stripping becomes either its first 20 characters plus an ellipsis,
\* at most 21 characters in all, or one of the stock phrases.
C13_TerseReplyAtMost21 ==
  (sel.done /\ sel.speaker = "ZhangQiling" /\ Len(StripEmoji(trim(sel.reply))) > 20) =>
    \/ /\ Len(sel.result) > 20
       /\ Len(sel.result) <= 21
       /\ SubSeq(sel.result, 1, 20) = SubSeq(StripEmoji(trim(sel.reply)), 1, 20)
    \/ \E i \in 1..Len(shortReplies) : sel.result = shortReplies[i]

\* ------------------------------------------------------------------------
\* The request model with requests that name no group of groupConfigs.
\* "WeiDingYiQun" (U+672A U+5B9A U+4E49 U+7FA4) is a name with no definition
\* at all; "TaLuoHui" is a group-chat name with a prompt and no group
\* definition.

SingleInputs ==
  {<<"KeLaiEn", msgRanHouNe>>, <<"WeiDingYiQun", msgRanHouNe>>, <<"TaLuoHui", msgRanHouNe>>}

\* The group names of the requests that groupConfigs does not define.
UndefinedGroups == {"WeiDingYiQun", "TaLuoHui"} \ DOMAIN groupConfigs

SingleHistories == {<<>>, <<histUser(msgTianQi)>>}

NextSingle ==
  \/ \E s \in SlotIds, userId \in UserIds, input \in SingleInputs :
       \E conversationHistory \in SingleHistories, expired \in BOOLEAN :
         ChatRequest(s, userId, input[1], input[2], conversationHistory, 0, expired)
  \/ \E s \in SlotIds, content \in ApiReplies : SingleCompletion(s, content)
  \/ \E s \in SlotIds : SingleCompletionFailed(s)

SpecSingle == Init /\ [][NextSingle]_vars

\* C14 as stated: a request that names a group with no group definition ends
\* in a loud failure: it is never answered with a normal reply obtained on
\* another path or with the default prompt.
C14_UndefinedGroupFailsLoudly ==
  (sent.pc = "done" /\ sent.message # <<>> /\ sent.character \in UndefinedGroups) =>
    /\ sent.response.status >= 400
    /\ sent.systemPrompt = "none"

\* ------------------------------------------------------------------------
\* Validation of POST /api/chat.

\* C15: a request with a missing message or a missing character is rejected
\* before the core: it never occupies a handler slot (no continuity decision,
\* no selection, no outbound call), the step that answers it gives status 400
\* with the error text, and leaves every context and the cache unchanged.
C15_InvalidInputRejected ==
  [][/\ \A s \in SlotIds :
          requests'[s].pc # "idle" =>
            (requests'[s].character # "" /\ requests'[s].message # <<>>)
     /\ (started' # started /\ requests' = requests
         /\ (sent'.character = "" \/ sent'.message = <<>>)) =>
          /\ sent'.response.status = 400
          /\ sent'.response.error = "Missing character or message"
          /\ sent'.response.reply = NullStr
          /\ sent'.path = "none"
          /\ sent'.selectedSpeaker = Null
          /\ sent'.completion = "none"
          /\ sent'.systemPrompt = "none"
          /\ contexts' = contexts
          /\ responseCache' = responseCache]_vars

\* A request without message for a group whose context a turn had updated was
\* rejected; the context still has that turn.
C15_Witness ==
  /\ sent.pc = "done"
  /\ sent.character = "TieSanJiao"
  /\ sent.message = <<>>
  /\ sent.response.status = 400
  /\ HasContext(contexts, "u1", "TieSanJiao")
  /\ contexts["u1"]["TieSanJiao"].messageCount = 1

\* ------------------------------------------------------------------------
\* shouldContinueWithSameSpeaker on its own: a context is built by
\* updateContext calls, then the decision is taken for one message.

\* U+6211 U+4EEC U+53BB U+54EA U+91CC: 5 code units, no mention, no topic, no
\* continuation indicator
msgWoMenQuNaLi == <<"wo", "men5", "qu", "na3", "li3">>
\* U+53BB U+54EA U+91CC "?" U+6211 U+4EEC U+8D70 U+5427: a question mark that
\* is not the last code unit
msgQuestionInside == <<"qu", "na3", "li3", "?", "wo", "men5", "zou", "ba">>
\* msgTianQi followed by the indicator U+7136 U+540E U+5462: 13 code units
msgTianQiRanHouNe == msgTianQi \o msgRanHouNe

ContinueMessages == Messages \cup {msgWoMenQuNaLi, msgQuestionInside, msgTianQiRanHouNe}

\* The number of updateContext calls before the decision.
MaxContinueUpdates == 2

ContinueUpdate(userMessage) ==
  /\ ~sel.done
  /\ Len(applied) < MaxContinueUpdates
  /\ UpdateContextCall("WangPangzi", userMessage)

\* The decision of lines 700-711 for one message: sel.path is "continue" when
\* shouldContinueWithSameSpeaker returns true, "select" when it returns false.
DecideContinue(message) ==
  /\ ~sel.done
  /\ contexts' = getUserContextStore(contexts, "u1", "TieSanJiao")
  /\ sel' = [NoSel EXCEPT
               !.done = TRUE, !.character = "TieSanJiao", !.message = message,
               !.path = IF shouldContinueWithSameSpeaker(
                              getUserContext(contexts, "u1", "TieSanJiao"), message)
                          THEN "continue" ELSE "select"]
  /\ UNCHANGED <<responseCache, requests, sent, started, now, resetPending, applied>>

NextContinue ==
  \/ \E userMessage \in ContinueMessages : ContinueUpdate(userMessage)
  \/ \E message \in ContinueMessages : DecideContinue(message)

SpecContinue == Init /\ [][NextContinue]_vars

\* The context the decision of sel was taken on.
DecidedContext == ContextOf("u1", "TieSanJiao")

\* The message contains no mention alias of any persona.
NoMention(message) ==
  \A i \in 1..Len(DetectionOrder) : ~MentionsPersona(message, DetectionOrder[i])

\* extractTopic(message) is present and equals the stored topic.
TopicMatches(context, message) ==
  /\ extractTopic(message) # NullStr
  /\ extractTopic(message) = context.topic

\* The message contains one of the continuation-indicator phrases.
HasIndicator(message) ==
  \E i \in 1..Len(continuationIndicators) : Includes(message, continuationIndicators[i])

\* The last character of the text is "?" or U+FF1F.
EndsWithQuestionMark(text) ==
  Len(text) > 0 /\ (text[Len(text)] = "?" \/ text[Len(text)] = "fw_q")

\* C16: with messageCount >= 2 and a message that mentions no persona,
\* shouldContinueWithSameSpeaker returns true whenever extractTopic(message) is
\* present and equals the stored topic, whatever the length, the indicators
\* and the previous message.
C16_TopicMatchContinues ==
  (sel.done /\ DecidedContext.messageCount >= 2 /\ NoMention(sel.message)
   /\ TopicMatches(DecidedContext, sel.message)) =>
    sel.path = "continue"

\* The topic matched for a message longer than 5 code units without indicator
\* after a previous message without question mark.
C16_Witness ==
  /\ sel.done
  /\ sel.message = msgGuMuJiGuan
  /\ DecidedContext.messageCount = 2
  /\ DecidedContext.topic = <<"gu", "mu">>
  /\ DecidedContext.lastUserMessage = msgGuMuJiGuan
  /\ ~HasIndicator(sel.message)
  /\ sel.path = "continue"

\* C17 as stated: with messageCount >= 2 and a message that mentions no
\* persona, does not match the stored topic, is longer than 5 characters and
\* has no continuation indicator, shouldContinueWithSameSpeaker returns true
\* if and only if the previous user message ended with "?" or U+FF1F.
C17_ContinuesIffPreviousEndedWithQuestion ==
  (sel.done /\ DecidedContext.messageCount >= 2 /\ NoMention(sel.message)
   /\ ~TopicMatches(DecidedContext, sel.message)
   /\ Len(sel.message) > 5 /\ ~HasIndicator(sel.message)) =>
    (sel.path = "continue" <=> EndsWithQuestionMark(DecidedContext.lastUserMessage))

\* C18: with messageCount >= 2 and a message that mentions no persona,
\* shouldContinueWithSameSpeaker returns true whenever the message has at most
\* 5 characters or contains a continuation indicator, whatever the stored
\* topic and the previous message.
C18_ShortOrIndicatorContinues ==
  (sel.done /\ DecidedContext.messageCount >= 2 /\ NoMention(sel.message)
   /\ (Len(sel.message) <= 5 \/ HasIndicator(sel.message))) =>
    sel.path = "continue"

\* A 13-unit message with an indicator continued on a context with another
\* topic and a previous message without question mark.
C18_Witness ==
  /\ sel.done
  /\ sel.message = msgTianQiRanHouNe
  /\ DecidedContext.messageCount = 2
  /\ DecidedContext.topic = <<"gu", "mu">>
  /\ ~Includes(DecidedContext.lastUserMessage, <<"?">>)
  /\ sel.path = "continue"

\* ------------------------------------------------------------------------
\* The updateContext call of a turn.

\* C19: the step that completes a group turn successfully applies
\* updateContext exactly once with the speaker of the response: messageCount
\* grows by exactly 1, one history entry {speaker, message} is appended, and
\* currentSpeaker, lastUserMessage and topic become the response's speaker,
\* the turn's message and extractTopic of it; and no step lowers the
\* messageCount of a context that exists before and after it (a reset removes
\* the entry).
C19_SuccessfulTurnUpdatesOnce ==
  [][/\ \A s \in SlotIds :
          (requests[s].pc = "awaiting" /\ requests'[s].pc = "idle"
           /\ sent'.completion = "ok") =>
            LET r == requests[s]
                before == ContextOf(r.userId, r.character)
                after == contexts'[r.userId][r.character]
                n == Len(after.speakerHistory)
            IN  /\ sent'.updates = 1
                /\ sent'.response.speaker = r.selectedSpeaker
                /\ after.messageCount = before.messageCount + 1
                /\ after.currentSpeaker = sent'.response.speaker
                /\ after.lastUserMessage = r.message
                /\ after.topic = extractTopic(r.message)
                /\ n = Len(before.speakerHistory) + 1
                /\ SubSeq(after.speakerHistory, 1, n - 1) = before.speakerHistory
                /\ after.speakerHistory[n].speaker = sent'.response.speaker
                /\ after.speakerHistory[n].message = r.message
     /\ \A key \in ContextKeys :
          (HasContext(contexts, key[1], key[2]) /\ HasContext(contexts', key[1], key[2])) =>
            contexts'[key[1]][key[2]].messageCount >= contexts[key[1]][key[2]].messageCount]_vars

\* The second successful turn of a (user, group): the context counts two
\* messages and has the fields of that turn.
C19_Witness ==
  /\ sent.pc = "done"
  /\ sent.completion = "ok"
  /\ sent.updates = 1
  /\ sent.message = msgRanHouNe
  /\ HasContext(contexts, sent.userId, sent.character)
  /\ LET context == contexts[sent.userId][sent.character]
     IN  /\ context.messageCount = 2
         /\ Len(context.speakerHistory) = 2
         /\ context.currentSpeaker = sent.response.speaker
         /\ context.lastUserMessage = msgRanHouNe
         /\ context.topic = NullStr
         /\ context.speakerHistory[1].message = msgWangPangziZaiMa

\* ------------------------------------------------------------------------
\* The outbound completion call.

\* C20: every group message makes at most one outbound completion call: a
\* request that awaits its completion has made one call, a request that was
\* answered has made at most one, and a request whose call failed was answered
\* with the fallback reply after that one call.
C20_AtMostOneCompletionCall ==
  /\ \A s \in SlotIds :
       requests[s].pc = "awaiting" => requests[s].calls = 1
  /\ (sent.pc = "done" /\ IsGroupChat(sent.character)) => sent.calls <= 1
  /\ (sent.pc = "done" /\ IsGroupChat(sent.character) /\ sent.completion = "failed") =>
       /\ sent.calls = 1
       /\ sent.response.fallback

\* A group request whose only call failed was answered with the fallback
\* reply, and no request is in flight.
C20_Witness ==
  /\ sent.pc = "done"
  /\ IsGroupChat(sent.character)
  /\ sent.completion = "failed"
  /\ sent.calls = 1
  /\ sent.response.fallback
  /\ \A s \in SlotIds : requests[s].pc = "idle"

\* ------------------------------------------------------------------------
\* The scores and the weighted walk of selectSpeakerByContext on their own:
\* the group, the message (one that mentions nobody) and the history are
\* drawn at the start, and the walk is applied to every value that
\* Math.random() * totalScore can take in steps of 1 / RandomDenominator.

\* U+8EAB U+624B U+5389 U+5BB3: two keywords of ZhangQiling, no mention
msgShenShouLiHai == <<"shen1", "shou", "li4", "hai4">>
\* U+4E3A U+4EC0 U+4E48 U+8981 U+7814 U+7A76 U+8BA1 U+5212: two keywords of
\* WuXie, one of XieYuchen, no mention
msgWeiShenMeYanJiu == <<"wei4", "shen2", "me", "yao", "yan", "jiu", "ji4", "hua4">>

ScoreMessages == {msgRanHouNe, msgShenShouLiHai, msgWeiShenMeYanJiu}

\* The window ends with a user entry; the last bot entry is WangPangzi's.
histUserLast ==
  <<histBot("WuXie", replyHao), histUser(msgQuNaLi),
    histBot("WangPangzi", replyHao), histUser(msgTianQi)>>

\* Eight bot entries of ZhangQiling: (10 - 8) * 3 - 5 - 3 is below the floor.
histZhangEight == [i \in 1..8 |-> histBot("ZhangQiling", replyHao)]

\* A user entry that carries a name, and a bot entry of a persona of no group.
histNamedUser ==
  <<[type |-> "user", name |-> "WuXie", text |-> msgTianQi],
    histBot("KeLaiEn", replyHao), histBot("WuXie", replyHao),
    histBot("ZhangQiling", replyHao), histBot("WuXie", replyHao)>>

ScoreHistories == Histories \cup {histUserLast, histZhangEight, histNamedUser}

\* The locals of selectSpeakerByContext for the inputs held in sel: members,
\* recentSpeakers, the scores before the floor and speakerScores.
selMembers == groupConfigs[sel.character].members
selRecentSpeakers == recentSpeakersOf(sel.history)
selRawScores ==
  [i \in 1..Len(selMembers) |-> rawScore(selMembers[i], sel.message, selRecentSpeakers)]
selScores == speakerScoresOf(selMembers, sel.message, selRecentSpeakers)

\* totalScore for the inputs held in sel
selTotalScore ==
  LET members == groupConfigs[sel.character].members
  IN  totalScoreOf(speakerScoresOf(members, sel.message, recentSpeakersOf(sel.history)))

InitScores ==
  /\ contexts = EmptyMap
  /\ responseCache = EmptyMap
  /\ requests = [s \in SlotIds |-> IdleRequest]
  /\ sent = IdleRequest
  /\ started = 0
  /\ now = 1
  /\ resetPending = {}
  /\ applied = <<>>
  /\ \E character \in DOMAIN groupConfigs, message \in ScoreMessages,
        conversationHistory \in ScoreHistories :
       /\ ReadsScores(character, message)
       /\ sel = [NoSel EXCEPT !.character = character, !.message = message,
                              !.history = conversationHistory]

\* Math.random() is in [0, 1): random ranges over [0, totalScore).  The
\* locals recentSpeakers and speakerScores, and the scores before the floor
\* of line 1056, are kept in sel with the result.
ApplyScores ==
  /\ ~sel.done
  /\ \E random \in 0..(selTotalScore * RandomDenominator - 1) :
       LET chosen == selectSpeakerByScores(sel.character, sel.message, sel.history, random)
       IN  sel' = [sel EXCEPT !.done = TRUE, !.rnd = random,
                              !.speaker = chosen.speaker, !.path = chosen.path,
                              !.recentSpeakers = selRecentSpeakers,
                              !.rawScores = selRawScores,
                              !.speakerScores = selScores]
  /\ UNCHANGED <<contexts, responseCache, requests, sent, started, now, resetPending, applied>>

SpecScores == InitScores /\ [][ApplyScores]_vars

\* C21: for every configured group, message and history every member's
\* score is at least 1 and the total is at least the number of members; for
\* every draw in [0, totalScore) the weighted walk returns a member of the
\* group, and the least-frequent fallback after the walk is not reached.
C21_WalkAlwaysReturnsMember ==
  /\ \A character \in DOMAIN groupConfigs : Len(groupConfigs[character].members) > 0
  /\ sel.done =>
       /\ Len(sel.speakerScores) = Len(selMembers)
       /\ \A i \in 1..Len(selMembers) : sel.speakerScores[i] >= 1
       /\ SumFrom(sel.speakerScores, 1) >= Len(selMembers)
       /\ sel.path = "weighted"
       /\ SeqIncludes(selMembers, sel.speaker)

\* The largest draw, with a member whose score is held up by the floor: the
\* walk ends on the last member.
C21_Witness ==
  /\ sel.done
  /\ sel.history = histZhangEight
  /\ \E i \in 1..Len(selMembers) : sel.rawScores[i] < 1
  /\ sel.rnd = SumFrom(sel.speakerScores, 1) * RandomDenominator - 1
  /\ sel.speaker = selMembers[Len(selMembers)]
  /\ sel.path = "weighted"

\* s_1 + ... + s_k
RECURSIVE PrefixSum(_, _)
PrefixSum(scores, k) == IF k = 0 THEN 0 ELSE PrefixSum(scores, k - 1) + scores[k]

\* C22: in the weighted draw the selected member is the first member, in
\* group-definition order, whose prefix sum of scores is at least the draw;
\* so the draws that select member k are those above the prefix sum of the
\* members before k and up to the prefix sum with k, an interval of size
\* score(k) (the draw 0 belongs to the first member).
C22_FirstPrefixSumAtLeastDraw ==
  sel.done =>
    LET members == selMembers
        scores == sel.speakerScores
        prefix == [k \in 0..Len(members) |-> PrefixSum(scores, k) * RandomDenominator]
    IN  \A k \in 1..Len(members) :
          /\ prefix[k] - prefix[k - 1] = scores[k] * RandomDenominator
          /\ (sel.speaker = members[k]) <=>
               /\ prefix[k] >= sel.rnd
               /\ \A j \in 1..(k - 1) : prefix[j] < sel.rnd
          /\ (sel.speaker = members[k]) <=>
               \/ prefix[k - 1] < sel.rnd /\ sel.rnd <= prefix[k]
               \/ k = 1 /\ sel.rnd = 0

\* A draw equal to the prefix sum of the first two members, whose scores
\* differ: the second member is selected.
C22_Witness ==
  /\ sel.done
  /\ sel.message = msgWeiShenMeYanJiu
  /\ sel.speakerScores[1] # sel.speakerScores[2]
  /\ sel.rnd = PrefixSum(sel.speakerScores, 2) * RandomDenominator
  /\ sel.speaker = selMembers[2]


\* The number of entries among the last 8 of the history that are
\* bot-authored, named, and have the member as speaker.
WindowCount(conversationHistory, member) ==
  LET n == Len(conversationHistory)
  IN  Cardinality({j \in 1..n :
        /\ j > n - 8
        /\ conversationHistory[j].type = "bot"
        /\ conversationHistory[j].name # ""
        /\ conversationHistory[j].name = member})

\* The topical keywords of a member that the lower-cased message contains.
TopicalKeywordsIn(member, message) ==
  {kw \in UNION {{keywordMapping[r].keywords[k] : k \in 1..Len(keywordMapping[r].keywords)} :
                   r \in {r \in 1..Len(keywordMapping) : keywordMapping[r].speaker = member}} :
     Includes(toLowerCase(message), kw)}

PersonaAdjustment(member) ==
  CASE member = "ZhangQiling" -> -3
    [] member \in {"WangPangzi", "WuXie"} -> 2
    [] OTHER -> 0

\* The anti-repetition test of line 1041 on the recorded recentSpeakers.
PenaltyApplies(member) ==
  /\ Len(sel.recentSpeakers) > 0
  /\ sel.recentSpeakers[Len(sel.recentSpeakers)] = member

\* C23: with no mentioned member, the score of each member before the floor
\* is (10 - min(c, 10)) * 3, c the member's bot-authored named entries among
\* the last 8 history entries, plus 8 per topical keyword of the member in
\* the lower-cased message, plus the persona adjustment, minus 5 when the
\* anti-repetition penalty applies.
C23_ScoreBeforeFloor ==
  sel.done =>
    /\ Len(sel.rawScores) = Len(selMembers)
    /\ \A i \in 1..Len(selMembers) :
         LET member == selMembers[i]
             c == WindowCount(sel.history, member)
         IN  sel.rawScores[i] =
                 (10 - Min2(c, 10)) * 3
               + 8 * Cardinality(TopicalKeywordsIn(member, sel.message))
               + PersonaAdjustment(member)
               - (IF PenaltyApplies(member) THEN 5 ELSE 0)

\* WuXie with 8 entries in the window of an 11-entry history, as the last
\* speaker, and two keywords in the message: 6 + 16 + 2 - 5; WangPangzi,
\* whose only entry is older than the window: 30 + 2.
C23_Witness ==
  /\ sel.done
  /\ sel.character = "TieSanJiao"
  /\ sel.history = histLong
  /\ sel.message = msgWeiShenMeYanJiu
  /\ sel.rawScores = <<32, 19, 27>>


\* The score of a member before the floor when no penalty is taken.
ScoreWithoutPenalty(member) ==
    (10 - Min2(WindowCount(sel.history, member), 10)) * 3
  + 8 * Cardinality(TopicalKeywordsIn(member, sel.message))
  + PersonaAdjustment(member)

\* The recorded score of member i has the 5 taken off.
Penalised(i) == sel.rawScores[i] = ScoreWithoutPenalty(selMembers[i]) - 5

\* The indices of the 8-entry window of the history.
WindowIndices == {j \in 1..Len(sel.history) : j > Len(sel.history) - 8}

\* The last entry of the window names the member as its speaker.
LastEntryNames(member) ==
  /\ Len(sel.history) > 0
  /\ sel.history[Len(sel.history)].name = member

\* The last bot-authored, named entry of the window names the member.
LastBotEntryNames(member) ==
  \E j \in WindowIndices :
    /\ sel.history[j].type = "bot" /\ sel.history[j].name = member
    /\ \A l \in WindowIndices :
         l > j => ~(sel.history[l].type = "bot" /\ sel.history[l].name # "")

\* C24 as stated: a member is penalised if and only if the literal last
\* entry of the 8-entry window names the member as its speaker.
C24_PenaltyOnLiteralLastEntry ==
  sel.done =>
    \A i \in 1..Len(selMembers) : Penalised(i) <=> LastEntryNames(selMembers[i])

\* C24, amended: the penalty of 5 is checked against the last bot-authored,
\* named entry of the 8-entry window only: a member is penalised if and only
\* if that entry names the member; a member who spoke earlier in the window
\* but is not the speaker of that entry is not penalised.
C24_PenaltyOnLastBotEntry ==
  sel.done =>
    \A i \in 1..Len(selMembers) :
      /\ sel.rawScores[i] \in {ScoreWithoutPenalty(selMembers[i]),
                               ScoreWithoutPenalty(selMembers[i]) - 5}
      /\ Penalised(i) <=> LastBotEntryNames(selMembers[i])

\* The window ends with a user entry: WangPangzi, the speaker of the last
\* bot entry, is penalised; WuXie, who spoke earlier in the window, is not.
C24_Witness ==
  /\ sel.done
  /\ sel.character = "TieSanJiao"
  /\ sel.history = histUserLast
  /\ sel.history[Len(sel.history)].type = "user"
  /\ Penalised(1) /\ selMembers[1] = "WangPangzi"
  /\ ~Penalised(2) /\ selMembers[2] = "WuXie"
  /\ WindowCount(sel.history, "WuXie") > 0


\* ------------------------------------------------------------------------
\* extractTopic on its own: the text is drawn at the start and the function
\* is applied to it.

\* The pieces the texts are put together from: U+738B; U+80D6 U+5B50;
\* U+5C0F U+54E5; U+673A U+5173; U+82B1 U+513F; U+7237; U+5929.
TopicSegments ==
  {<<"wang">>, <<"pang", "zi">>, <<"xiao", "ge">>, <<"ji", "guan">>, <<"hua", "er">>,
   <<"ye">>, <<"tian">>}

\* The number of pieces of a text.
MaxTopicSegments == 3

RECURSIVE TextsOf(_)
TextsOf(n) ==
  IF n = 0 THEN {<<>>}
  ELSE LET shorter == TextsOf(n - 1)
       IN  shorter \cup {t \o s : t \in shorter, s \in TopicSegments}

TopicTexts == TextsOf(MaxTopicSegments)

InitTopic ==
  /\ contexts = EmptyMap
  /\ responseCache = EmptyMap
  /\ requests = [s \in SlotIds |-> IdleRequest]
  /\ sent = IdleRequest
  /\ started = 0
  /\ now = 1
  /\ resetPending = {}
  /\ applied = <<>>
  /\ \E text \in TopicTexts : sel = [NoSel EXCEPT !.message = text]

ApplyExtractTopic ==
  /\ ~sel.done
  /\ sel' = [sel EXCEPT !.done = TRUE, !.topic = extractTopic(sel.message)]
  /\ UNCHANGED <<contexts, responseCache, requests, sent, started, now, resetPending, applied>>

SpecTopic == InitTopic /\ [][ApplyExtractTopic]_vars

\* The keyword occurs in the text at some position.
OccursIn(keyword, text) ==
  \E p \in 1..Len(text) :
    /\ p + Len(keyword) - 1 <= Len(text)
    /\ \A k \in 1..Len(keyword) : text[p + k - 1] = keyword[k]

\* The positions in the topic list of the keywords the text contains.
TopicHits(text) == {i \in 1..Len(topics) : OccursIn(topics[i], text)}

\* C25: extractTopic(text) is the keyword of the topic list, earliest in list
\* order, that the text contains, wherever in the text it and the other
\* keywords occur, and is absent exactly when the text contains no listed
\* keyword; the result is fixed by the text.
C25_FirstTopicInListOrder ==
  sel.done =>
    LET hits == TopicHits(sel.message)
    IN  /\ (sel.topic = NullStr) <=> (hits = {})
        /\ hits # {} =>
             \E i \in hits : /\ \A j \in hits : i <= j
                             /\ sel.topic = topics[i]

\* U+673A U+5173 U+5C0F U+54E5: the last keyword of the list comes first in
\* the text, the first keyword of the list second; the result is the latter.
C25_Witness ==
  /\ sel.done
  /\ sel.message = <<"ji", "guan", "xiao", "ge">>
  /\ TopicHits(sel.message) = {1, Len(topics)}
  /\ sel.topic = <<"xiao", "ge">>


\* ------------------------------------------------------------------------
\* The speaker of a group's context.

\* The persona is a member of the group and has a member configuration.
ConfiguredMember(character, persona) ==
  /\ SeqIncludes(groupConfigs[character].members, persona)
  /\ persona \in DOMAIN groupConfigs[character].memberDetails

\* C26: in every reachable state, the currentSpeaker of a group's context is
\* absent exactly when messageCount is 0 and otherwise a member of that
\* group; so the speaker of a request that was decided "continue" is a
\* member of the group with a member configuration.
C26_CurrentSpeakerIsMember ==
  /\ \A key \in ContextKeys :
       LET context == ContextOf(key[1], key[2])
       IN  /\ (context.currentSpeaker = Null) <=> (context.messageCount = 0)
           /\ context.currentSpeaker # Null =>
                ConfiguredMember(key[2], context.currentSpeaker)
  /\ \A s \in SlotIds :
       requests[s].pc = "awaiting" /\ requests[s].shouldContinue =>
         /\ requests[s].selectedSpeaker = requests[s].speakerBefore
         /\ ConfiguredMember(requests[s].character, requests[s].selectedSpeaker)
  /\ sent.pc = "done" /\ sent.shouldContinue =>
       ConfiguredMember(sent.character, sent.selectedSpeaker)

\* A request decided "continue" is waiting for its completion; the context it
\* read has two messages and a member as speaker.
C26_Witness ==
  \E s \in SlotIds :
    /\ requests[s].pc = "awaiting"
    /\ requests[s].shouldContinue
    /\ requests[s].path = "continue"
    /\ ContextOf(requests[s].userId, requests[s].character).messageCount >= 2
    /\ ConfiguredMember(requests[s].character, requests[s].selectedSpeaker)


\* ------------------------------------------------------------------------
\* Long runs of group turns on one (user, group): handleGroupChatSmart called
\* again and again, two calls at a time, with resets and reads in between.
\* The completion service answers every call (a failed call leaves the
\* context as it is, lines 776-786).

\* The clock value up to which a turn may start.
MaxTurns == 11

\* The message of a turn: a conversation (a context with no message yet) is
\* opened with either message, and carried on with the continuation message.
\* The draw of a selection is the largest one, which the walk ends on the
\* last member with.
TurnMessages ==
  IF ContextOf("u1", "TieSanJiao").messageCount = 0
    THEN {msgRanHouNe, msgWangPangziZaiMa} ELSE {msgRanHouNe}
TurnDraw == RandomDenominator - 1

\* handleGroupChatSmart up to the outbound call (lines 696-753), for a
\* request that passed the validation of POST /api/chat.
GroupTurnStart(s, userId, character, message, conversationHistory, rnd) ==
  /\ now <= MaxTurns
  /\ FreeSlot(s)
  /\ IsGroupChat(character) /\ ~MissingInput(character, message)
  /\ LET req == [IdleRequest EXCEPT !.userId = userId, !.character = character,
                                    !.message = message]
         d == groupDecision(contexts, userId, character, message, conversationHistory, rnd)
         decided == [req EXCEPT !.selectedSpeaker = d.selectedSpeaker,
                                !.shouldContinue = d.shouldContinue,
                                !.path = d.path,
                                !.speakerBefore = d.speakerBefore]
     IN  /\ contexts' = d.store
         /\ NoteGet(userId, character)
         /\ IF d.selectedSpeaker \in DOMAIN groupConfigs[character].memberDetails
              THEN /\ requests' = [requests EXCEPT ![s] =
                                     [decided EXCEPT !.pc = "awaiting", !.calls = 1]]
                   /\ UNCHANGED sent
              ELSE /\ sent' = respond(decided, 200, getFallbackResponse(character),
                                      Null, "AI service unavailable", TRUE, FALSE)
                   /\ UNCHANGED requests
  /\ UNCHANGED <<responseCache, started, now, sel, applied>>

NextTurns ==
  \/ \E s \in SlotIds, message \in TurnMessages :
       GroupTurnStart(s, "u1", "TieSanJiao", message, <<>>, TurnDraw)
  \/ \E s \in SlotIds : GroupCompletion(s, replyHao, 0)
  \/ GetConversationContext("u1", "TieSanJiao")
  \/ ResetConversationContext("u1", "TieSanJiao")

SpecTurns == Init /\ [][NextTurns]_vars

\* The keyword of the topic list, earliest in list order, that the text
\* contains; absent when there is none.
FirstListedTopic(text) ==
  LET hits == TopicHits(text)
  IN  IF hits = {} THEN NullStr
      ELSE topics[CHOOSE i \in hits : \A j \in hits : i <= j]

\* C27: in every reachable state, whatever the interleaving of the requests
\* and resets of a (user, group), the context has
\* speakerHistory.length = min(messageCount, 10) and, when messageCount > 0,
\* the speaker and message of the last history entry are currentSpeaker and
\* lastUserMessage, and topic is extractTopic(lastUserMessage); no update is
\* missing from the history.
C27_ContextConsistent ==
  \A key \in ContextKeys :
    HasContext(contexts, key[1], key[2]) =>
      LET context == contexts[key[1]][key[2]]
          history == context.speakerHistory
      IN  /\ Len(history) = Min2(context.messageCount, 10)
          /\ context.messageCount > 0 =>
               /\ history[Len(history)].speaker = context.currentSpeaker
               /\ history[Len(history)].message = context.lastUserMessage
               /\ context.topic = FirstListedTopic(context.lastUserMessage)
               \* every update since the context was created is there: the
               \* clock advances with each update of this one (user, group)
               /\ history[Len(history)].timestamp = now - 1
               /\ \A i \in 1..(Len(history) - 1) :
                    history[i + 1].timestamp = history[i].timestamp + 1

\* The context has had more than 10 updates; a request of the same
\* (user, group), decided when the context had another speaker or none, is
\* still waiting for its completion.
C27_Witness ==
  /\ HasContext(contexts, "u1", "TieSanJiao")
  /\ contexts["u1"]["TieSanJiao"].messageCount > 10
  /\ Len(contexts["u1"]["TieSanJiao"].speakerHistory) = 10
  /\ sent.pc = "done" /\ sent.completion = "ok"
  /\ \E s \in SlotIds :
       /\ requests[s].pc = "awaiting"
       /\ requests[s].userId = "u1" /\ requests[s].character = "TieSanJiao"
       /\ requests[s].speakerBefore # contexts["u1"]["TieSanJiao"].currentSpeaker


\* ------------------------------------------------------------------------
\* A reset while a request of the same (user, group) is in flight.

\* The request in slot s took its decision before the last reset of its
\* (user, group), and nothing has read the context since that reset.
InFlightAtReset(s) ==
  /\ requests[s].pc = "awaiting"
  /\ <<requests[s].userId, requests[s].character>> \in resetPending

\* C28 as stated: after a reset of (user, group) the context stays at its
\* default until a message submitted after the reset is processed: when the
\* completion call of a request that was in flight at the reset returns, the
\* context is still the default one.
C28_InFlightRequestLeavesResetContext ==
  [][\A s \in SlotIds :
       InFlightAtReset(s) /\ requests'[s].pc = "idle" =>
         getUserContext(contexts', requests[s].userId, requests[s].character)
           = DefaultContext]_vars

====
